---- MODULE Spec2Model ----
(***************************************************************************)
(* Model of the OneDrive sync engine (app/sync/engine.py) together with    *)
(* the parts of the Graph client (app/graph/onedrive_client.py) and of the *)
(* metadata store (app/storage/config_store.py) it drives.                 *)
(*                                                                         *)
(* One folder is synchronised.  The local tree, the remote tree and the    *)
(* store start empty; the user and other devices change the two trees      *)
(* between sync runs, and every sync run is executed step by step.         *)
(***************************************************************************)
EXTENDS Integers, Sequences, FiniteSets, TLC

(* ------------------------------ bounds --------------------------------- *)
\* Changes made by the user and by other devices in one behaviour.
MaxEnv == 2
MaxEnvLong == 3
\* Invocations of sync_folder in one behaviour.
MaxRuns == 2
\* Requests the remote lets fail in one run.
MaxFaults == 3
\* Items in one page of a delta response.
PageSize == 2

(* --------------------------- program constants ------------------------- *)
MaxAttempts == 3
DisplayName == "Docs"

(* ------------------------------ universe ------------------------------- *)
\* Relative paths are sequences of segments: a, d and d/a.
Paths == {<<"a">>, <<"d">>, <<"d", "a">>}
\* The order in which directory listings and dictionaries enumerate paths.
PathOrder == << <<"a">>, <<"d">>, <<"d", "a">> >>
Root == <<>>
Directions == {"pull", "push", "bidirectional"}
Policies == {"remote_wins", "local_wins", "prompt"}
PromptChoices == {"remote", "local", "skip"}

NoCursor == -1
Partial == 0
NoTmp == -1
NoHash == 0
NoMtime == 0

Name(p) == p[Len(p)]
ParentOf(p) == SubSeq(p, 1, Len(p) - 1)
ItemId(p) == IF p = <<"a">> THEN "id_a" ELSE IF p = <<"d">> THEN "id_d" ELSE "id_da"
Under(p, q) == Len(p) > Len(q) /\ SubSeq(p, 1, Len(q)) = q

NoNode == [kind |-> "none", data |-> 0, mtime |-> NoMtime]
DirNode == [kind |-> "dir", data |-> 0, mtime |-> NoMtime]
NoRemote == [kind |-> "none", data |-> 0, etag |-> 0]
NoState == [item_id |-> "none", etag |-> 0, mtime |-> NoMtime, hash |-> NoHash]
NoChange == [changed |-> FALSE, has_state |-> FALSE, hash |-> NoHash]
NoDl == [src |-> <<>>, dest |-> <<>>, etag |-> 0, attempt |-> 0, last_error |-> "none",
         content |-> 0, phase |-> "none"]

VARIABLES
    direction, conflict_policy, parent_widget,   \* FolderConfig / engine settings
    fs, tmpf,                                    \* local tree and temporary siblings
    states,                                      \* FileState table of the folder
    delta_link, last_status, last_error,         \* persisted folder state
    history, notes,                              \* sync history and notifications
    remote, rver, rseq,                          \* remote tree and its change feed
    pc, ctx_delta, local_changes, collected,     \* one sync_folder invocation
    link, last_delta, queue, work, rkeys,
    dl, status, error_message, outcome,
    ops, states0, fs0, remote0, cursor0,         \* what this run did, and its start
    prevStates, quiet,                           \* the previous run's result
    runs, budget, faults,
    probe,                                       \* a path handed to the path mapper
    trial,                                       \* two conflicts handed to the resolver
    batch,                                       \* a batch: sync_all, or the headless runner
    db,                                          \* the tables of a ConfigStore
    auth,                                        \* the MSAL token cache (silent acquisition)
    include_subfolders,                          \* FolderConfig.include_subfolders
    scan,                                        \* one local scan (_detect_local_changes)
    ui,                                          \* the tasks of the event loop of the UI
    xfer,                                        \* one transfer beside an external writer
    feed                                         \* the delta responses: well-formed only, or any

engineVars == <<direction, conflict_policy, parent_widget, fs, tmpf, states,
          delta_link, last_status, last_error, history, notes,
          remote, rver, rseq, pc, ctx_delta, local_changes, collected,
          link, last_delta, queue, work, rkeys, dl, status,
          error_message, outcome, ops, states0, fs0, remote0, cursor0, prevStates, quiet,
          runs, budget, faults>>

vars == <<engineVars, probe, trial, batch, db, auth, include_subfolders, scan, ui, xfer, feed>>

\* The settings, and what no step of a folder run touches.
sideVars == <<direction, conflict_policy, parent_widget, probe, trial, batch, db, auth, include_subfolders, scan, ui, xfer>>
cfgVars == <<sideVars, feed>>
storeVars == <<states, delta_link, last_status, last_error, history, notes>>
remoteVars == <<remote, rver, rseq>>
runVars == <<ctx_delta, local_changes, collected, link, last_delta, queue, work,
             rkeys, dl, status, error_message>>
histVars == <<ops, states0, fs0, remote0, cursor0, prevStates>>

(* ------------------------------ local tree ----------------------------- *)
\* LocalWalker.hash_file: a digest of the bytes, None when the file is gone.
hash_file(node) == IF node.kind = "file" THEN 100 + node.data ELSE NoHash

\* A modification time no earlier write of this path has left behind.
FreshMtime(p) ==
    CHOOSE m \in 1..3 :
        /\ m # fs[p].mtime /\ m # states[p].mtime
        /\ \A k \in 1..3 : (k # fs[p].mtime /\ k # states[p].mtime) => m <= k

Exists(f, p) == f[p].kind # "none"

\* Path.mkdir(parents=True, exist_ok=True) of directory q: fails on a regular file.
MkdirFails(f, q) ==
    \E k \in 1..Len(q) : SubSeq(q, 1, k) \in Paths /\ f[SubSeq(q, 1, k)].kind = "file"
Mkdir(f, q) ==
    [p \in Paths |-> IF (p = q \/ Under(q, p)) /\ f[p].kind = "none" THEN DirNode ELSE f[p]]

\* SyncEngine._handle_delete: recursive removal, nothing when absent.
handle_delete(f, q) == [p \in Paths |-> IF p = q \/ Under(p, q) THEN NoNode ELSE f[p]]
DropTmp(t, f, q) == [p \in Paths |-> IF Under(p, q) /\ f[q].kind = "dir" THEN NoTmp ELSE t[p]]

(* ------------------------------ the store ------------------------------ *)
\* ConfigStore.upsert_file_state / remove_file_state, keyed by relative path.
upsert_file_state(st, p, rec) == [st EXCEPT ![p] = rec]
remove_file_state(st, p) == IF p \in Paths THEN [st EXCEPT ![p] = NoState] ELSE st

\* ConfigStore.update_folder_state: only arguments that are not None are written.
UpdField(old, new, none) == IF new # none THEN new ELSE old

(* --------------------------- local scanner ----------------------------- *)
\* SyncEngine._detect_local_changes.  The engine's times are whole ticks, further
\* apart than the tolerance of the comparison; the scanner section below has
\* the comparison in milliseconds.
FileChanged(node, st) ==
    \/ st = NoState
    \/ (st.mtime # NoMtime /\ st.mtime # node.mtime)
    \/ st.hash # hash_file(node)

detect_local_changes(f, st) ==
    [p \in Paths |->
        IF f[p].kind = "file"
        THEN IF FileChanged(f[p], st[p])
             THEN [changed |-> TRUE, has_state |-> st[p] # NoState, hash |-> hash_file(f[p])]
             ELSE NoChange
        ELSE IF st[p] # NoState
             THEN [changed |-> TRUE, has_state |-> TRUE, hash |-> NoHash]
             ELSE NoChange]

(* ------------------------------- Init ---------------------------------- *)
Start(limit) ==
    /\ direction \in Directions
    /\ conflict_policy \in Policies
    /\ parent_widget \in BOOLEAN
    /\ (conflict_policy # "prompt" => parent_widget = FALSE)
    /\ fs = [p \in Paths |-> NoNode]
    /\ tmpf = [p \in Paths |-> NoTmp]
    /\ states = [p \in Paths |-> NoState]
    /\ delta_link = NoCursor
    /\ last_status = "none"
    /\ last_error = "none"
    /\ history = <<>>
    /\ notes = <<>>
    /\ remote = [p \in Paths |-> NoRemote]
    /\ rver = [p \in Paths |-> 0]
    /\ rseq = 0
    /\ pc = "idle"
    /\ ctx_delta = NoCursor
    /\ local_changes = [p \in Paths |-> NoChange]
    /\ collected = <<>>
    /\ link = NoCursor
    /\ last_delta = NoCursor
    /\ queue = <<>>
    /\ work = <<>>
    /\ rkeys = <<>>
    /\ dl = NoDl
    /\ status = "none"
    /\ error_message = "none"
    /\ outcome = "none"
    /\ ops = <<>>
    /\ states0 = states
    /\ fs0 = fs
    /\ remote0 = remote
    /\ cursor0 = NoCursor
    /\ prevStates = states
    /\ quiet = FALSE
    /\ runs = 0
    /\ budget = limit
    /\ faults = 0

NoProbe == [way |-> "none", path |-> <<>>, mapped |-> <<>>, back |-> <<>>, step |-> "none"]

NoTrial == [step |-> 0]

NoBatch == [at |-> "off"]

NoFeed == [faulty |-> FALSE, last |-> "none"]

NoXfer == [at |-> "off"]

NoUi == [tasks |-> <<>>, on |-> FALSE]

NoScan == [at |-> "off"]

DefaultSubfolders == TRUE

NoAuth == [calls |-> -1]

NoDb == [steps |-> -1]

Init == Start(MaxEnv) /\ probe = NoProbe /\ trial = NoTrial /\ batch = NoBatch /\ db = NoDb /\ auth = NoAuth /\ include_subfolders = DefaultSubfolders /\ scan = NoScan /\ ui = NoUi /\ xfer = NoXfer /\ feed = NoFeed
\* The same start, with one more change by the user or another device.
InitLong == Start(MaxEnvLong) /\ probe = NoProbe /\ trial = NoTrial /\ batch = NoBatch /\ db = NoDb /\ auth = NoAuth /\ include_subfolders = DefaultSubfolders /\ scan = NoScan /\ ui = NoUi /\ xfer = NoXfer /\ feed = NoFeed

(* ----------------- the user and other devices, between runs ------------ *)
\* The user writes (creates or modifies) a local file.
LocalWrite(p) ==
    /\ pc = "idle" /\ budget > 0
    /\ fs[p].kind # "dir"
    /\ ~MkdirFails(fs, ParentOf(p))
    /\ fs' = [Mkdir(fs, ParentOf(p)) EXCEPT
                ![p] = [kind |-> "file",
                        data |-> IF fs[p].data = 1 THEN 2 ELSE 1,
                        mtime |-> FreshMtime(p)]]
    /\ budget' = budget - 1 /\ quiet' = FALSE
    /\ UNCHANGED <<cfgVars, tmpf, storeVars, remoteVars, pc, runVars, outcome, histVars, runs, faults>>

\* The user removes a local file or directory tree.
LocalDelete(p) ==
    /\ pc = "idle" /\ budget > 0
    /\ Exists(fs, p)
    /\ fs' = handle_delete(fs, p)
    /\ tmpf' = DropTmp(tmpf, fs, p)
    /\ budget' = budget - 1 /\ quiet' = FALSE
    /\ UNCHANGED <<cfgVars, storeVars, remoteVars, pc, runVars, outcome, histVars, runs, faults>>

\* Another device writes a remote file (parents are created as needed).
RemotePut(r, v, s, p, data) ==
    LET mk == ParentOf(p) \in Paths /\ r[ParentOf(p)].kind = "none"
        sp == IF mk THEN s + 1 ELSE s
        s1 == sp + 1
    IN  [remote |-> [q \in Paths |->
                        IF q = p THEN [kind |-> "file", data |-> data, etag |-> s1]
                        ELSE IF mk /\ q = ParentOf(p) THEN [kind |-> "folder", data |-> 0, etag |-> sp]
                        ELSE r[q]],
         rver |-> [q \in Paths |-> IF q = p THEN s1
                                   ELSE IF mk /\ q = ParentOf(p) THEN sp ELSE v[q]],
         rseq |-> s1]

RemotePutOk(r, p) ==
    /\ r[p].kind # "folder"
    /\ (ParentOf(p) \in Paths => r[ParentOf(p)].kind # "file")

RemoteWrite(p) ==
    /\ pc = "idle" /\ budget > 0
    /\ p # <<"d">>
    /\ RemotePutOk(remote, p)
    /\ LET n == RemotePut(remote, rver, rseq, p, IF remote[p].data = 3 THEN 4 ELSE 3)
       IN  remote' = n.remote /\ rver' = n.rver /\ rseq' = n.rseq
    /\ budget' = budget - 1 /\ quiet' = FALSE
    /\ UNCHANGED <<cfgVars, fs, tmpf, storeVars, pc, runVars, outcome, histVars, runs, faults>>

RemoteMkdir ==
    /\ pc = "idle" /\ budget > 0
    /\ remote[<<"d">>].kind = "none"
    /\ remote' = [remote EXCEPT ![<<"d">>] = [kind |-> "folder", data |-> 0, etag |-> rseq + 1]]
    /\ rver' = [rver EXCEPT ![<<"d">>] = rseq + 1]
    /\ rseq' = rseq + 1
    /\ budget' = budget - 1 /\ quiet' = FALSE
    /\ UNCHANGED <<cfgVars, fs, tmpf, storeVars, pc, runVars, outcome, histVars, runs, faults>>

\* Removal of a remote item and of everything below it.
RemoteDrop(r, v, s, p) ==
    LET kids == \E q \in Paths : Under(q, p) /\ r[q].kind # "none"
        s1 == IF kids THEN s + 2 ELSE s + 1
    IN  [remote |-> [q \in Paths |-> IF q = p \/ Under(q, p) THEN NoRemote ELSE r[q]],
         rver |-> [q \in Paths |-> IF q = p THEN s1
                                   ELSE IF Under(q, p) /\ r[q].kind # "none" THEN s + 1 ELSE v[q]],
         rseq |-> s1]

RemoteDelete(p) ==
    /\ pc = "idle" /\ budget > 0
    /\ remote[p].kind # "none"
    /\ LET n == RemoteDrop(remote, rver, rseq, p)
       IN  remote' = n.remote /\ rver' = n.rver /\ rseq' = n.rseq
    /\ budget' = budget - 1 /\ quiet' = FALSE
    /\ UNCHANGED <<cfgVars, fs, tmpf, storeVars, pc, runVars, outcome, histVars, runs, faults>>

Environment ==
    \/ \E p \in Paths : LocalWrite(p)
    \/ \E p \in Paths : LocalDelete(p)
    \/ \E p \in Paths : RemoteWrite(p)
    \/ RemoteMkdir
    \/ \E p \in Paths : RemoteDelete(p)

(* --------------------------- sync_folder ------------------------------- *)
\* sync_folder up to the choice of the collection strategy (lines 103-122):
\* the context is built from the stored folder and the local tree is scanned.
StartSync ==
    /\ pc = "idle" /\ runs < MaxRuns
    /\ runs' = runs + 1
    /\ ctx_delta' = delta_link
    /\ local_changes' = detect_local_changes(fs, states)
    /\ collected' = <<>>
    /\ link' = delta_link
    /\ last_delta' = delta_link
    /\ queue' = IF delta_link = NoCursor THEN <<Root>> ELSE <<>>
    /\ work' = <<>>
    /\ rkeys' = <<>>
    /\ dl' = NoDl
    /\ status' = "success"
    /\ error_message' = "none"
    /\ outcome' = "running"
    /\ ops' = <<>>
    /\ states0' = states
    /\ fs0' = fs
    /\ remote0' = remote
    /\ cursor0' = delta_link
    /\ pc' = IF delta_link # NoCursor THEN "delta" ELSE "listing"
    /\ faults' = 0                      \* failed requests of this run
    /\ UNCHANGED <<cfgVars, fs, tmpf, storeVars, remoteVars, prevStates, quiet, budget>>

(* ------------------------------ path mapper ---------------------------- *)
\* parentReference.path of the item at remote path p, split at "/":
\* /drive/root:/Docs[/d]
ParentPath(p) == <<"drive", "root:", DisplayName>> \o ParentOf(p)

AfterRoot(segs) ==
    IF \E i \in 1..Len(segs) : segs[i] = "root:"
    THEN LET i == CHOOSE j \in 1..Len(segs) :
                      segs[j] = "root:" /\ \A k \in 1..(j - 1) : segs[k] # "root:"
         IN  SubSeq(segs, i + 1, Len(segs))
    ELSE segs
StripDrive(parts) ==
    IF parts # <<>> /\ parts[1] \in {"drive", "drives"} THEN SubSeq(parts, 3, Len(parts)) ELSE parts
StripDisplay(parts) ==
    IF parts # <<>> /\ parts[1] = DisplayName THEN Tail(parts) ELSE parts

\* SyncEngine._destination_path, relative to the local root.
destination_path(item) == StripDisplay(StripDrive(AfterRoot(item.parent))) \o <<item.name>>

\* SyncEngine._remote_relative_path
remote_relative_path(rel) ==
    LET p1 == IF Len(rel) >= 2 /\ SubSeq(rel, 1, 2) = <<"drives", "drive">>
              THEN SubSeq(rel, 3, Len(rel)) ELSE rel
        p2 == IF p1 # <<>> /\ p1[1] \in {"root", "root:"} THEN Tail(p1) ELSE p1
    IN  IF p2 # <<>> /\ p2[1] = DisplayName THEN Tail(p2) ELSE p2

\* The paths handed to the mapper: up to MaxDepth segments, among them the
\* display name of the folder and the names the mapper looks for.
MaxDepth == 2
Segments == {"a", "root", "drives", "drive", DisplayName}
ProbePaths == UNION {[1..n -> Segments] : n \in 1..MaxDepth}

\* The item the remote reports for the remote-relative path r of the folder.
ItemAt(r) == [parent |-> ParentPath(r), name |-> Name(r)]

InitPaths ==
    /\ Start(0)
    /\ trial = NoTrial /\ batch = NoBatch /\ db = NoDb /\ auth = NoAuth /\ include_subfolders = DefaultSubfolders /\ scan = NoScan /\ ui = NoUi /\ xfer = NoXfer /\ feed = NoFeed
    /\ \E w \in {"up", "down"}, p \in ProbePaths :
          probe = [way |-> w, path |-> p, mapped |-> <<>>, back |-> <<>>, step |-> "in"]

\* The first mapping: _remote_relative_path of a local relative path (as
\* _upload_item does), or _destination_path of a remote item.
MapOut ==
    /\ probe.step = "in"
    /\ probe' = [probe EXCEPT
                    !.mapped = IF probe.way = "up" THEN remote_relative_path(probe.path)
                               ELSE destination_path(ItemAt(probe.path)),
                    !.step = "out"]
    /\ UNCHANGED <<engineVars, trial, batch, db, auth, include_subfolders, scan, ui, xfer, feed>>

\* The mapping back.  A path mapped to the folder itself names no item.
MapBack ==
    /\ probe.step = "out"
    /\ probe' = [probe EXCEPT
                    !.back = IF probe.mapped = <<>> THEN <<>>
                             ELSE IF probe.way = "up" THEN destination_path(ItemAt(probe.mapped))
                             ELSE remote_relative_path(probe.mapped),
                    !.step = "done"]
    /\ UNCHANGED <<engineVars, trial, batch, db, auth, include_subfolders, scan, ui, xfer, feed>>

NextPaths == MapOut \/ MapBack
SpecPaths == InitPaths /\ [][NextPaths]_vars

(* ------------------------------ the remote ----------------------------- *)
RECURSIVE SeqByVer(_, _)
SeqByVer(S, v) ==
    IF S = {} THEN <<>>
    ELSE LET m == CHOOSE p \in S : \A q \in S : v[p] <= v[q]
         IN  <<m>> \o SeqByVer(S \ {m}, v)

RECURSIVE SeqByOrder(_, _)
SeqByOrder(S, i) ==
    IF i > Len(PathOrder) THEN <<>>
    ELSE (IF PathOrder[i] \in S THEN <<PathOrder[i]>> ELSE <<>>) \o SeqByOrder(S, i + 1)

\* The item record the remote returns for path p.  A deletion marker may
\* come without the parent path.
FeedItem(p, full) ==
    [src |-> p, name |-> Name(p),
     parent |-> IF remote[p].kind = "none" /\ ~full THEN <<>> ELSE ParentPath(p),
     is_folder |-> remote[p].kind = "folder",
     etag |-> remote[p].etag,
     deleted |-> remote[p].kind = "none"]

\* OneDriveClient.delta with a cursor: one page of the changes after token t.
DeltaPage(t, full) ==
    LET pending == SeqByVer({p \in Paths : rver[p] > t}, rver)
        n == IF Len(pending) > PageSize THEN PageSize ELSE Len(pending)
        more == Len(pending) > PageSize
    IN  [value |-> [i \in 1..n |-> FeedItem(pending[i], full)],
         nextLink |-> IF more THEN rver[pending[n]] ELSE NoCursor,
         deltaLink |-> IF more THEN NoCursor ELSE rseq]

\* OneDriveClient.delta without a cursor: the first page of the enumeration
\* of the current tree.
InitialDelta ==
    LET items == {p \in Paths : remote[p].kind # "none"}
    IN  [deltaLink |-> IF Cardinality(items) > PageSize THEN NoCursor ELSE rseq]

\* OneDriveClient.list_children: the children of a remote folder, all pages.
Children(folder) ==
    SeqByOrder({p \in Paths : ParentOf(p) = folder /\ remote[p].kind # "none"}, 1)

(* --------------------------- exceptions -------------------------------- *)
Op(phase, op, key, ch, lex) ==
    [phase |-> phase, op |-> op, path |-> key, deleted |-> ch.deleted,
     folder |-> ch.is_folder, lexists |-> lex]
NoItem == [src |-> Root, name |-> "", parent |-> <<>>, is_folder |-> FALSE, etag |-> 0, deleted |-> FALSE]

\* An exception that leaves sync_folder before the try block (lines 116-122).
Abort(exc) ==
    /\ pc' = "idle" /\ outcome' = exc /\ quiet' = FALSE

\* An exception inside the try block (lines 128-134).
Fail(msg) ==
    /\ status' = "error" /\ error_message' = msg /\ pc' = "finish"

(* ----------------------- remote change collection ---------------------- *)
\* A collector that never asks for a further page.
next_link_none(payload) == NoCursor

\* SyncEngine._collect_remote_changes, line 220: the link of the next request.
next_link(payload) == payload.nextLink

\* What client.delta may answer: a page of the feed; where the feed is not
\* trusted also a body without value and links, or a status >= 400.
DeltaAnswers == IF feed.faulty THEN {"page", "empty", "GraphApiError"} ELSE {"page"}

\* SyncEngine._normalize_delta: a body that is a dict is taken as it is, any
\* other body as the empty dict: no value, no @odata.nextLink, no
\* @odata.deltaLink.
NoLinks == [value |-> <<>>, nextLink |-> NoCursor, deltaLink |-> NoCursor]
normalize_delta(result) == IF result.dict THEN result.body ELSE NoLinks

\* SyncEngine._collect_remote_changes: one iteration of the paging loop, and
\* after the last page the update of the stored cursor.
CollectDelta ==
    /\ pc = "delta"
    /\ \E full \in BOOLEAN, answer \in DeltaAnswers :
         /\ feed' = IF feed.faulty THEN [feed EXCEPT !.last = answer] ELSE feed
         /\ IF answer = "GraphApiError"
            THEN /\ full
                 /\ Abort("GraphApiError")
                 /\ UNCHANGED <<collected, link, last_delta, ctx_delta, delta_link>>
            ELSE LET payload == normalize_delta([dict |-> answer = "page",
                                                 body |-> DeltaPage(link, full)])
                     last == IF payload.deltaLink # NoCursor THEN payload.deltaLink ELSE last_delta
                 IN  /\ (answer = "empty" => full)
                     /\ (full = FALSE => \E i \in 1..Len(payload.value) : payload.value[i].deleted)
                     /\ collected' = collected \o payload.value
                     /\ link' = next_link(payload)
                     /\ last_delta' = last
                     /\ IF next_link(payload) # NoCursor
                        THEN /\ pc' = "delta"
                             /\ UNCHANGED <<ctx_delta, delta_link>>
                        ELSE /\ pc' = "reconcile"
                             /\ ctx_delta' = IF last # NoCursor THEN last ELSE ctx_delta
                             /\ delta_link' = IF last # NoCursor THEN last ELSE delta_link
                     /\ UNCHANGED <<outcome, quiet>>
    /\ UNCHANGED <<sideVars, fs, tmpf, states, last_status, last_error, history, notes,
                   remoteVars, local_changes, queue, work, rkeys, dl, status,
                   error_message, histVars, runs, budget, faults>>

\* SyncEngine._collect_full_listing: the next folder is taken from the queue
\* and its children are requested.
ListChildren ==
    /\ pc = "listing" /\ work = <<>> /\ queue # <<>>
    /\ LET folder == queue[Len(queue)]
           kids == Children(folder)
       IN  /\ work' = [i \in 1..Len(kids) |-> FeedItem(kids[i], TRUE)]
           /\ queue' = SubSeq(queue, 1, Len(queue) - 1)
    /\ UNCHANGED <<cfgVars, fs, tmpf, storeVars, remoteVars, pc, ctx_delta, local_changes,
                   collected, link, last_delta, rkeys, dl, status, error_message,
                   outcome, histVars, quiet, runs, budget, faults>>

\* SyncEngine._collect_full_listing: one listed item.  A folder is queued,
\* a file is downloaded at once (lines 238-245).
ListItem ==
    /\ pc = "listing" /\ work # <<>>
    /\ LET item == Head(work)
           dest == destination_path(item)
       IN  /\ collected' = Append(collected, item)
           /\ work' = Tail(work)
           /\ IF item.is_folder
              THEN /\ queue' = Append(queue, item.src)
                   /\ UNCHANGED <<fs, dl, pc, outcome, quiet, ops>>
              ELSE /\ UNCHANGED queue
                   /\ IF MkdirFails(fs, ParentOf(dest))
                      THEN Abort("FileExistsError") /\ UNCHANGED <<fs, dl, ops>>
                      ELSE /\ fs' = Mkdir(fs, ParentOf(dest))
                           /\ ops' = Append(ops, Op("listing", "download", dest, item, Exists(fs, dest)))
                           /\ dl' = [src |-> item.src, dest |-> dest, etag |-> item.etag,
                                     attempt |-> 0, last_error |-> "none",
                                     content |-> 0, phase |-> "listing"]
                           /\ pc' = "dl_fetch"
                           /\ UNCHANGED <<outcome, quiet>>
    /\ UNCHANGED <<cfgVars, tmpf, storeVars, remoteVars, ctx_delta, local_changes,
                   link, last_delta, rkeys, status, error_message,
                   states0, fs0, remote0, cursor0, prevStates, runs, budget, faults>>

\* SyncEngine._collect_full_listing: the cursor request that ends it (246-247).
ListDelta ==
    /\ pc = "listing" /\ work = <<>> /\ queue = <<>>
    /\ ctx_delta' = InitialDelta.deltaLink
    /\ pc' = "reconcile"
    /\ UNCHANGED <<cfgVars, fs, tmpf, storeVars, remoteVars, local_changes, collected,
                   link, last_delta, queue, work, rkeys, dl, status, error_message,
                   outcome, histVars, quiet, runs, budget, faults>>

(* ------------------------------ download ------------------------------- *)
\* Where an exception raised by a transfer goes: out of sync_folder when it
\* happens during the full listing, into the except clause otherwise.
Raise(phase, msg) ==
    IF phase = "listing"
    THEN Abort(msg) /\ UNCHANGED <<status, error_message>>
    ELSE Fail(msg) /\ UNCHANGED <<outcome, quiet>>

AfterTransfer(phase) == IF phase = "listing" THEN "listing" ELSE "rloop"

\* A retry loop that grants one attempt more than the client does.
attempts_left_plus_one(tried) == tried < MaxAttempts + 1

\* OneDriveClient.download, the retry loop: are there attempts left after
\* `tried` failed ones?
attempts_left(tried) == tried < MaxAttempts

\* OneDriveClient.download: one attempt (lines 96-117).  ReadError and
\* RemoteProtocolError are retried, every other error leaves at once; when
\* no attempt is left the last error is raised.
Transient == {"ReadError", "RemoteProtocolError"}
DlFetch ==
    /\ pc = "dl_fetch"
    /\ \E result \in {"ok", "GraphApiError"} \cup Transient :
         LET gone == remote[dl.src].kind # "file"
             tried == dl.attempt + 1
         IN  /\ (result = "ok" => ~gone)
             /\ (result \in Transient => faults < MaxFaults)
             /\ (result = "GraphApiError" => (gone \/ faults < MaxFaults))
             /\ faults' = IF result = "ok" \/ gone THEN faults ELSE faults + 1
             /\ IF result = "ok"
                THEN /\ dl' = [dl EXCEPT !.attempt = tried, !.content = remote[dl.src].data]
                     /\ pc' = "dl_open"
                     /\ UNCHANGED <<status, error_message, outcome, quiet>>
                ELSE IF result \in Transient
                THEN /\ dl' = [dl EXCEPT !.attempt = tried, !.last_error = result]
                     /\ IF attempts_left(tried)
                        THEN UNCHANGED <<pc, status, error_message, outcome, quiet>>
                        ELSE Raise(dl.phase, result)
                ELSE /\ dl' = [dl EXCEPT !.attempt = tried]
                     /\ Raise(dl.phase, result)
    /\ UNCHANGED <<cfgVars, fs, tmpf, storeVars, remoteVars, ctx_delta, local_changes,
                   collected, link, last_delta, queue, work, rkeys, histVars, runs, budget>>

\* A download that opens the destination itself for writing.
open_in_place(f, t, dest) ==
    [fs |-> [f EXCEPT ![dest] = [kind |-> "file", data |-> Partial, mtime |-> f[dest].mtime]],
     tmpf |-> [t EXCEPT ![dest] = Partial]]

\* SyncEngine._download_item, lines 463-464: the file that is opened for
\* writing is the temporary sibling of the destination.
open_temp(f, t, dest) == [fs |-> f, tmpf |-> [t EXCEPT ![dest] = Partial]]

DlOpen ==
    /\ pc = "dl_open"
    /\ fs' = open_temp(fs, tmpf, dl.dest).fs
    /\ tmpf' = open_temp(fs, tmpf, dl.dest).tmpf
    /\ pc' = "dl_write"
    /\ UNCHANGED <<cfgVars, storeVars, remoteVars, runVars, outcome, histVars, quiet,
                   runs, budget, faults>>

\* SyncEngine._download_item: the content is written to the sibling (465).
DlWrite ==
    /\ pc = "dl_write"
    /\ tmpf' = [tmpf EXCEPT ![dl.dest] = dl.content]
    /\ pc' = "dl_replace"
    /\ UNCHANGED <<cfgVars, fs, storeVars, remoteVars, runVars, outcome, histVars, quiet,
                   runs, budget, faults>>

\* Where the finished content is put: the temporary sibling replaces the
\* destination in one rename (line 466).
install(f, dest, content, mtime) ==
    [f EXCEPT ![dest] = [kind |-> "file", data |-> content, mtime |-> mtime]]

\* SyncEngine._record_file_state
record_file_state(st, f, src, etag, dest) ==
    upsert_file_state(st, dest,
        [item_id |-> ItemId(src), etag |-> etag,
         mtime |-> IF Exists(f, dest) THEN f[dest].mtime ELSE NoMtime,
         hash |-> IF Exists(f, dest) THEN hash_file(f[dest]) ELSE NoHash])

\* SyncEngine._download_item, the rename, followed by the caller's
\* _record_file_state.
DlReplace ==
    /\ pc = "dl_replace"
    /\ IF fs[dl.dest].kind = "dir"
       THEN /\ Raise(dl.phase, "IsADirectoryError")
            /\ UNCHANGED <<fs, tmpf, states, dl>>
       ELSE LET f1 == install(fs, dl.dest, tmpf[dl.dest], FreshMtime(dl.dest))
            IN  /\ fs' = f1
                /\ tmpf' = [tmpf EXCEPT ![dl.dest] = NoTmp]
                /\ states' = record_file_state(states, f1, dl.src, dl.etag, dl.dest)
                /\ dl' = NoDl
                /\ pc' = AfterTransfer(dl.phase)
                /\ UNCHANGED <<status, error_message, outcome, quiet>>
    /\ UNCHANGED <<cfgVars, delta_link, last_status, last_error, history, notes, remoteVars,
                   ctx_delta, local_changes, collected, link, last_delta, queue, work,
                   rkeys, histVars, runs, budget, faults>>

(* ------------------------------ reconcile ------------------------------ *)
RECURSIVE KeysOf(_)
KeysOf(changes) ==
    IF changes = <<>> THEN <<>>
    ELSE LET rest == KeysOf(SubSeq(changes, 1, Len(changes) - 1))
             key == destination_path(changes[Len(changes)])
         IN  IF \E i \in 1..Len(rest) : rest[i] = key THEN rest ELSE Append(rest, key)

\* remote_map[key]: the last collected change that maps to the key.
RemoteMap(key) ==
    LET i == CHOOSE j \in 1..Len(collected) :
                 /\ destination_path(collected[j]) = key
                 /\ \A k \in (j + 1)..Len(collected) : destination_path(collected[k]) # key
    IN  collected[i]

RECURSIVE MkdirParents(_, _)
MkdirParents(f, keys) ==
    IF keys = <<>> THEN f ELSE MkdirParents(Mkdir(f, ParentOf(Head(keys))), Tail(keys))

\* SyncEngine._reconcile, lines 257-262: the remote map is built; every
\* _destination_path creates the directory of its item.
ReconcileStart ==
    /\ pc = "reconcile"
    /\ LET keys == KeysOf(collected)
       IN  IF \E i \in 1..Len(keys) : MkdirFails(fs, ParentOf(keys[i]))
           THEN /\ Fail("FileExistsError")
                /\ UNCHANGED <<fs, rkeys>>
           ELSE /\ fs' = MkdirParents(fs, keys)
                /\ rkeys' = keys
                /\ pc' = "rloop"
                /\ UNCHANGED <<status, error_message>>
    /\ UNCHANGED <<cfgVars, tmpf, storeVars, remoteVars, ctx_delta, local_changes, collected,
                   link, last_delta, queue, work, dl, outcome, histVars, quiet, runs, budget, faults>>

RemoteSide(ch) ==
    IF ch.deleted THEN "ldelete" ELSE IF ch.is_folder THEN "mkdir" ELSE "download"
LocalSide(lex) == IF lex THEN "upload" ELSE "rdelete"

\* SyncEngine._prompt_conflict: without a parent widget the answer is "remote".
prompt_conflict(widget, answer) == IF ~widget THEN "remote" ELSE answer

\* A resolver whose first branch asks for remote_wins and pull together.
resolve_conflict_both(dir, policy, ch, lex, choice) ==
    IF policy = "remote_wins" /\ dir = "pull" THEN RemoteSide(ch)
    ELSE IF policy = "local_wins" \/ dir = "push" THEN LocalSide(lex)
    ELSE IF choice = "remote" THEN "download"
    ELSE IF choice = "local" THEN LocalSide(lex)
    ELSE "skip"

\* A resolver that asks the user in every bidirectional folder.
resolve_conflict_asking(dir, policy, ch, lex, choice) ==
    IF dir = "pull" THEN RemoteSide(ch)
    ELSE IF dir = "push" THEN LocalSide(lex)
    ELSE IF choice = "remote" THEN "download"
    ELSE IF choice = "local" THEN LocalSide(lex)
    ELSE "skip"

\* SyncEngine._resolve_conflict: the operation chosen for a conflicting path.
resolve_conflict(dir, policy, ch, lex, choice) ==
    IF policy = "remote_wins" \/ dir = "pull" THEN RemoteSide(ch)
    ELSE IF policy = "local_wins" \/ dir = "push" THEN LocalSide(lex)
    ELSE IF choice = "remote" THEN "download"
    ELSE IF choice = "local" THEN LocalSide(lex)
    ELSE "skip"

\* Two conflicts of two runs of one folder: the settings of the folder, the
\* state of the local file and of the remote item are the same, the kind of
\* the remote item, the parent widget of the engine and the answer of the
\* user are each run's own.
Conflicts == [is_folder : BOOLEAN, widget : BOOLEAN, answer : PromptChoices]
NoAction == "none"

InitConflict ==
    /\ Start(0)
    /\ probe = NoProbe /\ batch = NoBatch /\ db = NoDb /\ auth = NoAuth /\ include_subfolders = DefaultSubfolders /\ scan = NoScan /\ ui = NoUi /\ xfer = NoXfer /\ feed = NoFeed
    /\ \E lex \in BOOLEAN, del \in BOOLEAN, c1 \in Conflicts, c2 \in Conflicts :
          trial = [step |-> 1, local_exists |-> lex, remote_deleted |-> del,
                   run |-> <<c1, c2>>, action |-> <<NoAction, NoAction>>]

\* SyncEngine._resolve_conflict, lines 301-330, for the conflict of run n.
Resolved(n) ==
    LET c == trial.run[n]
        ch == [NoItem EXCEPT !.deleted = trial.remote_deleted, !.is_folder = c.is_folder]
    IN  resolve_conflict(direction, conflict_policy, ch, trial.local_exists,
                         prompt_conflict(c.widget, c.answer))

ResolveFirst ==
    /\ trial.step = 1
    /\ trial' = [trial EXCEPT !.action[1] = Resolved(1), !.step = 2]
    /\ UNCHANGED <<engineVars, probe, batch, db, auth, include_subfolders, scan, ui, xfer, feed>>

ResolveSecond ==
    /\ trial.step = 2
    /\ trial' = [trial EXCEPT !.action[2] = Resolved(2), !.step = 3]
    /\ UNCHANGED <<engineVars, probe, batch, db, auth, include_subfolders, scan, ui, xfer, feed>>

NextConflict == ResolveFirst \/ ResolveSecond
SpecConflict == InitConflict /\ [][NextConflict]_vars

\* SyncEngine._reconcile, lines 271-279: a remote change without local change.
apply_remote(dir, ch) ==
    IF dir \in {"pull", "bidirectional"} THEN RemoteSide(ch) ELSE "skip"

\* A local loop that drops the FileState of a vanished file without telling
\* the remote side.
apply_local_forget(dir, has_state, exists) ==
    IF has_state /\ ~exists THEN "forget"
    ELSE IF exists /\ dir \in {"push", "bidirectional"} THEN "upload"
    ELSE "skip"

\* SyncEngine._reconcile, lines 284-289: a local change without remote change.
apply_local(dir, has_state, exists) ==
    IF has_state /\ ~exists
    THEN IF dir \in {"push", "bidirectional"} THEN "rdelete" ELSE "forget"
    ELSE IF exists /\ dir \in {"push", "bidirectional"} THEN "upload"
    ELSE "skip"

\* OneDriveClient.delete_item: the answers the service can give.  An item
\* that is gone is answered with 404; any request can be refused (429, 5xx).
delete_item(r, rp) ==
    IF r[rp].kind = "none" THEN {"GraphApiError"} ELSE {"ok", "GraphApiError"}

\* The chosen operation is carried out on tree f1.
Perform(phase, action, key, ch, f1, lex) ==
    LET entry == Op(phase, action, key, ch, lex)
        rp == remote_relative_path(key)
    IN
    /\ ops' = Append(ops, entry)
    /\ CASE action = "ldelete" ->
              /\ fs' = handle_delete(f1, key)
              /\ tmpf' = DropTmp(tmpf, f1, key)
              /\ states' = remove_file_state(states, key)
              /\ pc' = "rloop"
              /\ UNCHANGED <<remoteVars, dl, status, error_message>>
         [] action = "mkdir" ->
              /\ IF f1[key].kind = "file"
                 THEN fs' = f1 /\ Fail("FileExistsError")
                 ELSE fs' = Mkdir(f1, key) /\ pc' = "rloop" /\ UNCHANGED <<status, error_message>>
              /\ UNCHANGED <<tmpf, states, remoteVars, dl>>
         [] action = "download" ->
              /\ fs' = f1
              /\ dl' = [src |-> ch.src, dest |-> key, etag |-> ch.etag,
                        attempt |-> 0, last_error |-> "none", content |-> 0, phase |-> phase]
              /\ pc' = "dl_fetch"
              /\ UNCHANGED <<tmpf, states, remoteVars, status, error_message>>
         [] action = "upload" ->
              /\ fs' = f1
              /\ IF f1[key].kind # "file"
                 THEN Fail("IsADirectoryError") /\ UNCHANGED <<states, remoteVars>>
                 ELSE IF ~RemotePutOk(remote, rp)
                 THEN Fail("GraphApiError") /\ UNCHANGED <<states, remoteVars>>
                 ELSE LET n == RemotePut(remote, rver, rseq, rp, f1[key].data)
                      IN  /\ remote' = n.remote /\ rver' = n.rver /\ rseq' = n.rseq
                          /\ states' = upsert_file_state(states, key,
                                 [item_id |-> ItemId(rp), etag |-> n.remote[rp].etag,
                                  mtime |-> f1[key].mtime, hash |-> hash_file(f1[key])])
                          /\ pc' = "rloop"
                          /\ UNCHANGED <<status, error_message>>
              /\ UNCHANGED <<tmpf, dl>>
         [] action = "rdelete" ->
              /\ fs' = f1
              /\ \E answer \in delete_item(remote, rp) :
                 IF answer = "GraphApiError"
                 THEN Fail("GraphApiError") /\ UNCHANGED <<states, remoteVars>>
                 ELSE LET n == RemoteDrop(remote, rver, rseq, rp)
                      IN  /\ remote' = n.remote /\ rver' = n.rver /\ rseq' = n.rseq
                          /\ states' = remove_file_state(states, key)
                          /\ pc' = "rloop"
                          /\ UNCHANGED <<status, error_message>>
              /\ UNCHANGED <<tmpf, dl>>
         [] action = "forget" ->
              /\ fs' = f1
              /\ states' = remove_file_state(states, key)
              /\ pc' = "rloop"
              /\ UNCHANGED <<tmpf, remoteVars, dl, status, error_message>>
         [] action = "skip" ->
              /\ fs' = f1
              /\ pc' = "rloop"
              /\ UNCHANGED <<tmpf, states, remoteVars, dl, status, error_message>>

\* SyncEngine._reconcile, lines 264-279: one key of the remote map.
ReconcileRemote ==
    /\ pc = "rloop" /\ rkeys # <<>>
    /\ LET key == Head(rkeys)
           ch == RemoteMap(key)
           lc == local_changes[key]
       IN  /\ rkeys' = Tail(rkeys)
           /\ local_changes' = [local_changes EXCEPT ![key] = NoChange]
           /\ IF MkdirFails(fs, ParentOf(key))
              THEN /\ Fail("FileExistsError")
                   /\ UNCHANGED <<fs, tmpf, states, remoteVars, dl, ops>>
              ELSE LET f1 == Mkdir(fs, ParentOf(key))
                       lex == Exists(f1, key)
                   IN  IF lc.changed
                       THEN \E answer \in PromptChoices :
                              /\ (answer # "remote" =>
                                    /\ parent_widget
                                    /\ conflict_policy = "prompt"
                                    /\ direction = "bidirectional")
                              /\ Perform("conflict",
                                         resolve_conflict(direction, conflict_policy, ch, lex,
                                                          prompt_conflict(parent_widget, answer)),
                                         key, ch, f1, lex)
                       ELSE Perform("remote", apply_remote(direction, ch), key, ch, f1, lex)
    /\ UNCHANGED <<cfgVars, delta_link, last_status, last_error, history, notes, ctx_delta,
                   collected, link, last_delta, queue, work, outcome, states0, fs0,
                   remote0, cursor0, prevStates, quiet, runs, budget, faults>>

\* The order of the remaining local changes: files as scanned, then the
\* paths whose FileState has no file.
RECURSIVE LocalKeys(_, _)
LocalKeys(lcs, i) ==
    IF i > Len(PathOrder) THEN <<>>
    ELSE (IF lcs[PathOrder[i]].changed THEN <<PathOrder[i]>> ELSE <<>>) \o LocalKeys(lcs, i + 1)
LocalQueue(lcs) ==
    LET keys == LocalKeys(lcs, 1)
    IN  SelectSeq(keys, LAMBDA k : lcs[k].hash # NoHash) \o
        SelectSeq(keys, LAMBDA k : lcs[k].hash = NoHash)

\* SyncEngine._reconcile, lines 281-289: one remaining local change.
ReconcileLocal ==
    /\ pc = "rloop" /\ rkeys = <<>>
    /\ LocalQueue(local_changes) # <<>>
    /\ LET key == Head(LocalQueue(local_changes))
           lc == local_changes[key]
       IN  /\ local_changes' = [local_changes EXCEPT ![key] = NoChange]
           /\ Perform("local", apply_local(direction, lc.has_state, Exists(fs, key)),
                      key, NoItem, fs, Exists(fs, key))
    /\ UNCHANGED <<cfgVars, delta_link, last_status, last_error, history, notes, ctx_delta,
                   collected, link, last_delta, queue, work, rkeys, outcome, states0, fs0,
                   remote0, cursor0, prevStates, quiet, runs, budget, faults>>

\* SyncEngine._reconcile returns.
ReconcileDone ==
    /\ pc = "rloop" /\ rkeys = <<>>
    /\ LocalQueue(local_changes) = <<>>
    /\ pc' = "finish"
    /\ UNCHANGED <<cfgVars, fs, tmpf, storeVars, remoteVars, runVars, outcome, histVars,
                   quiet, runs, budget, faults>>

(* ------------------------- the finally block --------------------------- *)
\* A notification that is always of normal urgency.
urgency_normal(st) == "normal"

\* sync_folder, line 166: the urgency of the notification.
urgency(st) == IF st = "error" THEN "critical" ELSE "normal"

\* A finally block that drops the cursor of a failed run.
finally_cursor_on_success(stored, ctx, st) ==
    IF st = "success" THEN UpdField(stored, ctx, NoCursor) ELSE NoCursor

\* sync_folder, lines 139-153: the stored cursor after the finally block.  The
\* cursor of the context is handed to the store when there is one, whatever
\* the status of the run.
finally_cursor(stored, ctx, st) == UpdField(stored, ctx, NoCursor)

\* sync_folder, lines 137-170: folder state, history record, notification,
\* and the exception of the try block is raised again.
Finish ==
    /\ pc = "finish"
    /\ delta_link' = finally_cursor(delta_link, ctx_delta, status)
    /\ last_status' = UpdField(last_status, status, "none")
    /\ last_error' = UpdField(last_error, error_message, "none")
    /\ history' = Append(history, [status |-> status, error_message |-> error_message])
    /\ notes' = Append(notes, urgency(status))
    /\ outcome' = IF status = "error" THEN error_message ELSE "returned"
    /\ quiet' = (status = "success")
    /\ prevStates' = states
    /\ pc' = "idle"
    /\ UNCHANGED <<cfgVars, fs, tmpf, states, remoteVars, runVars, ops, states0, fs0,
                   remote0, cursor0, runs, budget, faults>>

Engine ==
    \/ StartSync \/ CollectDelta \/ ListChildren \/ ListItem \/ ListDelta
    \/ DlFetch \/ DlOpen \/ DlWrite \/ DlReplace
    \/ ReconcileStart \/ ReconcileRemote \/ ReconcileLocal \/ ReconcileDone
    \/ Finish

Next == Environment \/ Engine


Spec == Init /\ [][Next]_vars
SpecLong == InitLong /\ [][Next]_vars

\* A folder added with --no-include-subfolders.
InitFlat ==
    /\ Start(MaxEnv)
    /\ probe = NoProbe /\ trial = NoTrial /\ batch = NoBatch /\ db = NoDb /\ auth = NoAuth
    /\ include_subfolders = FALSE /\ scan = NoScan /\ ui = NoUi /\ xfer = NoXfer /\ feed = NoFeed
SpecFlat == InitFlat /\ [][Next]_vars

\* The engine beside a service whose delta responses are not trusted.  The
\* conflict policy has no part in what is written to the cursor; one policy
\* is followed, in every direction.
InitCursor ==
    /\ Start(MaxEnv)
    /\ conflict_policy = "remote_wins"
    /\ probe = NoProbe /\ trial = NoTrial /\ batch = NoBatch /\ db = NoDb /\ auth = NoAuth
    /\ include_subfolders = DefaultSubfolders /\ scan = NoScan /\ ui = NoUi /\ xfer = NoXfer
    /\ feed = [faulty |-> TRUE, last |-> "none"]
SpecCursor == InitCursor /\ [][Next]_vars

(* ------------------------------ the batches ---------------------------- *)
\* A batch is sync_all called on one engine ("direct"), or the headless
\* runner, which builds one engine per account and calls run_headless on it.
\* A folder's run is followed through its steps only: local scan, remote
\* collection, reconciliation, finally block, notification.
MaxAccounts == 2
MaxFolders == 2
\* What a folder's run raises in collection or reconciliation.
SyncErrors == {"GraphApiError", "ReadError", "FileExistsError"}

Event(kind, a, f) == [kind |-> kind, account |-> a, folder |-> f]
Headless == batch.driver = "headless"

InitBatch ==
    /\ Start(0)
    /\ probe = NoProbe /\ trial = NoTrial /\ db = NoDb /\ auth = NoAuth /\ include_subfolders = DefaultSubfolders /\ scan = NoScan /\ ui = NoUi /\ xfer = NoXfer /\ feed = NoFeed
    /\ \E d \in {"direct", "headless"}, n \in 0..MaxAccounts, m \in 0..MaxFolders,
          nt \in BOOLEAN :
          /\ d = "direct" => n = 1
          /\ d = "headless" => ~nt              \* run_sync.py:66 passes no notifier
          /\ batch = [driver |-> d, accounts |-> n, folders |-> m, notifier |-> nt,
                      at |-> IF d = "direct" THEN "sync_all" ELSE "accounts",
                      account |-> IF d = "direct" THEN 1 ELSE 0, folder |-> 0,
                      exc |-> "none", client |-> FALSE, log |-> <<>>]

\* _run, lines 53-59: no account, no sync; otherwise the next account.
NextAccount ==
    /\ batch.at = "accounts"
    /\ batch' = IF batch.account < batch.accounts
                THEN [batch EXCEPT !.account = @ + 1, !.folder = 0, !.at = "token",
                                   !.log = Append(@, Event("start", batch.account + 1, 0))]
                ELSE [batch EXCEPT !.at = "done"]
    /\ UNCHANGED <<engineVars, probe, trial, db, auth, include_subfolders, scan, ui, xfer, feed>>

\* _run, lines 60-64: an account without cached token is skipped.
Token ==
    /\ batch.at = "token"
    /\ \E cached \in BOOLEAN :
          batch' = IF cached THEN [batch EXCEPT !.at = "engine"]
                   ELSE [batch EXCEPT !.at = "accounts",
                                      !.log = Append(@, Event("skipped", batch.account, 0))]
    /\ UNCHANGED <<engineVars, probe, trial, db, auth, include_subfolders, scan, ui, xfer, feed>>

\* _run, lines 66-68: the account's engine, and run_headless on it.
Construct ==
    /\ batch.at = "engine"
    /\ batch' = [batch EXCEPT !.at = "sync_all", !.client = FALSE, !.exc = "none"]
    /\ UNCHANGED <<engineVars, probe, trial, db, auth, include_subfolders, scan, ui, xfer, feed>>

\* sync_all, lines 95-98: the configured folders; none, and it returns.
SyncAll ==
    /\ batch.at = "sync_all"
    /\ batch' = IF batch.folders = 0
                THEN [batch EXCEPT !.at = "after"]
                ELSE [batch EXCEPT !.at = "scan", !.folder = 1]
    /\ UNCHANGED <<engineVars, probe, trial, db, auth, include_subfolders, scan, ui, xfer, feed>>

\* sync_folder, lines 105-116: the client, the local root and the local scan.
Scan ==
    /\ batch.at = "scan"
    /\ batch' = [batch EXCEPT !.at = "collect", !.client = TRUE,
                              !.log = Append(@, Event("scan", batch.account, batch.folder))]
    /\ UNCHANGED <<engineVars, probe, trial, db, auth, include_subfolders, scan, ui, xfer, feed>>

\* sync_folder, lines 118-121: the remote changes; an exception leaves
\* sync_folder at once.
Collect ==
    /\ batch.at = "collect"
    /\ \E e \in {"none"} \cup SyncErrors :
          batch' = [batch EXCEPT
                      !.at = IF e = "none" THEN "reconcile" ELSE "after",
                      !.exc = e,
                      !.log = Append(@, Event("remote", batch.account, batch.folder)) \o
                              (IF e = "none" THEN <<>>
                               ELSE <<Event("fail", batch.account, batch.folder)>>)]
    /\ UNCHANGED <<engineVars, probe, trial, db, auth, include_subfolders, scan, ui, xfer, feed>>

\* A run whose finally block is entered after a failure only.
after_try_error(e) == IF e = "none" THEN "next" ELSE "finally"

\* sync_folder, lines 128-137: the finally block follows the try block
\* whether or not it raised.
after_try(e) == "finally"

\* sync_folder, lines 128-134: reconciliation; its exception is kept.
Reconcile ==
    /\ batch.at = "reconcile"
    /\ \E e \in {"none"} \cup SyncErrors :
          batch' = [batch EXCEPT
                      !.at = after_try(e),
                      !.exc = e,
                      !.log = Append(@, Event("remote", batch.account, batch.folder)) \o
                              (IF e = "none" THEN <<>>
                               ELSE <<Event("fail", batch.account, batch.folder)>>)]
    /\ UNCHANGED <<engineVars, probe, trial, db, auth, include_subfolders, scan, ui, xfer, feed>>

\* sync_folder, lines 137-158: folder state and history record.
Record ==
    /\ batch.at = "finally"
    /\ batch' = [batch EXCEPT
                   !.at = "notify",
                   !.log = @ \o <<Event("write", batch.account, batch.folder),
                                  Event("record", batch.account, batch.folder)>>]
    /\ UNCHANGED <<engineVars, probe, trial, db, auth, include_subfolders, scan, ui, xfer, feed>>

\* sync_folder, lines 159-170: the notification, when there is a notifier.
Notify ==
    /\ batch.at = "notify"
    /\ batch' = [batch EXCEPT
                   !.at = "next",
                   !.log = IF batch.notifier
                           THEN Append(@, Event("notify", batch.account, batch.folder))
                           ELSE @]
    /\ UNCHANGED <<engineVars, probe, trial, db, auth, include_subfolders, scan, ui, xfer, feed>>

\* sync_folder, line 134, and sync_all, lines 100-101: the exception of the
\* try block is raised again and ends sync_all; otherwise the next folder.
NextFolder ==
    /\ batch.at = "next"
    /\ batch' = IF batch.exc # "none" THEN [batch EXCEPT !.at = "after"]
                ELSE IF batch.folder < batch.folders
                THEN [batch EXCEPT !.at = "scan", !.folder = @ + 1]
                ELSE [batch EXCEPT !.at = "after"]
    /\ UNCHANGED <<engineVars, probe, trial, db, auth, include_subfolders, scan, ui, xfer, feed>>

\* A handler for the errors of the Graph API only.
handles_graph(e) == e = "GraphApiError"

\* _run, line 69: "except Exception" handles whatever a sync raises.
handles(e) == e \in SyncErrors

\* sync_all has returned or raised.  A direct caller gets the exception;
\* _run, lines 67-72, logs it.
Outcome ==
    /\ batch.at = "after"
    /\ batch' = IF ~Headless THEN [batch EXCEPT !.at = "done"]
                ELSE [batch EXCEPT
                        !.at = "close",
                        !.exc = IF handles(batch.exc) THEN "none" ELSE @,
                        !.log = Append(@, Event(IF batch.exc = "none" THEN "completed"
                                                ELSE IF handles(batch.exc) THEN "caught"
                                                ELSE "uncaught", batch.account, 0))]
    /\ UNCHANGED <<engineVars, probe, trial, db, auth, include_subfolders, scan, ui, xfer, feed>>

\* _run, lines 73-74, and SyncEngine.close: the engine is closed; an
\* exception that was not handled leaves _run.
Close ==
    /\ batch.at = "close"
    /\ batch' = [batch EXCEPT
                   !.at = IF batch.exc = "none" THEN "accounts" ELSE "crashed",
                   !.client = FALSE,
                   !.log = Append(@, Event("closed", batch.account, 0))]
    /\ UNCHANGED <<engineVars, probe, trial, db, auth, include_subfolders, scan, ui, xfer, feed>>

NextBatch ==
    \/ NextAccount \/ Token \/ Construct \/ SyncAll
    \/ Scan \/ Collect \/ Reconcile \/ Record \/ Notify \/ NextFolder
    \/ Outcome \/ Close
SpecBatch == InitBatch /\ [][NextBatch]_vars

(* ------------------------------ ConfigStore ---------------------------- *)
\* The tables of the store are sets of rows; a call is one transaction.
\* MaxCalls bounds the number of calls made on one store.
MaxCalls == 4
DEFAULT_ACCOUNT_ID == "default"
\* Account ids as callers pass them ("" stands for None and the empty
\* string), remote ids of folders and relative paths.
AccountArgs == {"", "acct"}
RemoteIds == {"f1", "f2"}
RelPaths == {"x", "y"}
\* The fields of a FileState besides its key.
StateFields == {[item_id |-> "i1", etag |-> 1], [item_id |-> "i2", etag |-> 2]}
None == [item_id |-> "none", etag |-> 0]

\* _normalize_account_id
normalize_account_id(account_id) ==
    IF account_id = "" THEN DEFAULT_ACCOUNT_ID ELSE account_id

FolderRows(t, account, remote_id) ==
    {r \in t.folders : r.account_id = account /\ r.remote_id = remote_id}
ItemRows(t, account, folder, path) ==
    {r \in t.items : r.account_id = account /\ r.folder_remote_id = folder
                     /\ r.relative_path = path}

\* A row of SyncedFolder as a FolderConfig with default fields creates it.
FolderRow(account, remote_id) ==
    [account_id |-> account, remote_id |-> remote_id, sync_direction |-> "pull",
     conflict_policy |-> "remote_wins", delta_link |-> NoCursor,
     last_status |-> "none", last_error |-> "none"]

\* ConfigStore.upsert_folder: the row of (account, remote id) is updated, or
\* a row is added.
upsert_folder(t, account_id, remote_id, dir) ==
    LET resolved == normalize_account_id(account_id)
        existing == FolderRows(t, resolved, remote_id)
        row == [FolderRow(resolved, remote_id) EXCEPT !.sync_direction = dir]
    IN  IF existing # {}
        THEN LET e == CHOOSE r \in existing : TRUE
             IN  [t EXCEPT !.folders =
                     (@ \ {e}) \cup {[row EXCEPT !.last_status = e.last_status,
                                                !.last_error = e.last_error]}]
        ELSE [t EXCEPT !.folders = @ \cup {row}]

\* A removal that deletes the FileStates of the remote id under every account.
remove_folder_any_account(t, account_id, remote_id) ==
    LET resolved == normalize_account_id(account_id)
        folder == FolderRows(t, resolved, remote_id)
    IN  IF folder # {}
        THEN [t EXCEPT !.items = {r \in @ : r.folder_remote_id # remote_id},
                       !.folders = @ \ {CHOOSE r \in folder : TRUE}]
        ELSE t

\* ConfigStore.remove_folder
remove_folder(t, account_id, remote_id) ==
    LET resolved == normalize_account_id(account_id)
        folder == FolderRows(t, resolved, remote_id)
    IN  IF folder # {}
        THEN [t EXCEPT !.items = {r \in @ : ~(r.account_id = resolved
                                              /\ r.folder_remote_id = remote_id)},
                       !.folders = @ \ {CHOOSE r \in folder : TRUE}]
        ELSE t

\* An upsert that adds a row without looking for the row of the key.
upsert_file_state_add(t, account_id, folder_remote_id, relative_path, fields) ==
    [t EXCEPT !.items = @ \cup {[account_id |-> normalize_account_id(account_id),
                                 folder_remote_id |-> folder_remote_id,
                                 relative_path |-> relative_path,
                                 item_id |-> fields.item_id, etag |-> fields.etag]}]

\* ConfigStore.upsert_file_state (the name upsert_file_state is the engine's
\* own table above)
store_upsert_file_state(t, account_id, folder_remote_id, relative_path, fields) ==
    LET resolved == normalize_account_id(account_id)
        state == ItemRows(t, resolved, folder_remote_id, relative_path)
        row == [account_id |-> resolved, folder_remote_id |-> folder_remote_id,
                relative_path |-> relative_path,
                item_id |-> fields.item_id, etag |-> fields.etag]
    IN  IF state # {}
        THEN LET e == CHOOSE r \in state : TRUE
             IN  [t EXCEPT !.items = (@ \ {e}) \cup {row}]
        ELSE [t EXCEPT !.items = @ \cup {row}]

\* ConfigStore.get_file_state: the first row of the key, or None.
get_file_state(t, account_id, folder_remote_id, relative_path) ==
    LET state == ItemRows(t, normalize_account_id(account_id), folder_remote_id, relative_path)
    IN  IF state = {} THEN None
        ELSE LET r == CHOOSE r \in state : TRUE
             IN  [item_id |-> r.item_id, etag |-> r.etag]

\* ConfigStore.remove_file_state
store_remove_file_state(t, account_id, folder_remote_id, relative_path) ==
    [t EXCEPT !.items = @ \ ItemRows(t, normalize_account_id(account_id),
                                     folder_remote_id, relative_path)]

\* The call made, for the record.
Call(op, account_id, remote_id, path) ==
    [op |-> op, account_id |-> account_id, remote_id |-> remote_id, path |-> path]
ItemKeys == {DEFAULT_ACCOUNT_ID, "acct"} \X RemoteIds \X RelPaths

\* A store right after its creation: every table is empty.
EmptyDb ==
    [steps |-> 0, folders |-> {}, items |-> {}, history |-> <<>>, preferences |-> {},
     before |-> {}, expect |-> [k \in ItemKeys |-> None],
     last |-> Call("none", "", "", "")]
StartStore ==
    /\ Start(0)
    /\ probe = NoProbe /\ trial = NoTrial /\ batch = NoBatch /\ auth = NoAuth /\ include_subfolders = DefaultSubfolders /\ scan = NoScan /\ ui = NoUi /\ xfer = NoXfer /\ feed = NoFeed
    /\ direction = "pull" /\ conflict_policy = "remote_wins" /\ parent_widget = FALSE
    /\ db = EmptyDb

InitStore == StartStore

UpsertFolder ==
    /\ db.steps \in 0..(MaxCalls - 1)
    /\ \E a \in AccountArgs, f \in RemoteIds, d \in {"pull", "push"} :
          db' = [upsert_folder(db, a, f, d) EXCEPT
                    !.steps = @ + 1, !.before = db.items, !.last = Call("upsert_folder", a, f, "")]
    /\ UNCHANGED <<engineVars, probe, trial, batch, auth, include_subfolders, scan, ui, xfer, feed>>

RemoveFolder ==
    /\ db.steps \in 0..(MaxCalls - 1)
    /\ \E a \in AccountArgs, f \in RemoteIds :
          db' = [remove_folder(db, a, f) EXCEPT
                    !.steps = @ + 1, !.before = db.items, !.last = Call("remove_folder", a, f, ""),
                    !.expect = [k \in ItemKeys |->
                                  IF k[1] = normalize_account_id(a) /\ k[2] = f
                                     /\ FolderRows(db, k[1], f) # {}
                                  THEN None ELSE db.expect[k]]]
    /\ UNCHANGED <<engineVars, probe, trial, batch, auth, include_subfolders, scan, ui, xfer, feed>>

UpsertFileState ==
    /\ db.steps \in 0..(MaxCalls - 1)
    /\ \E a \in AccountArgs, f \in RemoteIds, p \in RelPaths, v \in StateFields :
          db' = [store_upsert_file_state(db, a, f, p, v) EXCEPT
                    !.steps = @ + 1, !.before = db.items, !.last = Call("upsert_file_state", a, f, p),
                    !.expect[<<normalize_account_id(a), f, p>>] = v]
    /\ UNCHANGED <<engineVars, probe, trial, batch, auth, include_subfolders, scan, ui, xfer, feed>>

RemoveFileState ==
    /\ db.steps \in 0..(MaxCalls - 1)
    /\ \E a \in AccountArgs, f \in RemoteIds, p \in RelPaths :
          db' = [store_remove_file_state(db, a, f, p) EXCEPT
                    !.steps = @ + 1, !.before = db.items, !.last = Call("remove_file_state", a, f, p),
                    !.expect[<<normalize_account_id(a), f, p>>] = None]
    /\ UNCHANGED <<engineVars, probe, trial, batch, auth, include_subfolders, scan, ui, xfer, feed>>

NextStore == UpsertFolder \/ RemoveFolder \/ UpsertFileState \/ RemoveFileState
SpecStore == InitStore /\ [][NextStore]_vars

(* ---------------------------- sync history ---------------------------- *)
\* The history table is the sequence of its rows in insertion order.  A
\* finished_at argument is a wall-clock hour with a time zone: UTC, one hour
\* east of UTC, or none (a naive datetime).
MaxEvents == 3
WallClock == 1..2
Zones == {"utc", "plus1", "naive"}
NoRecord == [account_id |-> "none", folder_remote_id |-> "none", finished_at |-> -1,
             status |-> "none"]

\* _ensure_utc: a naive value is taken as UTC, an aware one is converted.
ensure_utc(wall, zone) == IF zone = "plus1" THEN wall - 1 ELSE wall

\* ConfigStore.record_sync_event
record_sync_event(t, account_id, folder_remote_id, st, wall, zone) ==
    [t EXCEPT !.history = Append(@, [account_id |-> normalize_account_id(account_id),
                                     folder_remote_id |-> folder_remote_id,
                                     finished_at |-> ensure_utc(wall, zone),
                                     status |-> st])]

\* A query that returns the row of the account inserted last.
latest_rows_inserted(t, account_id) ==
    LET resolved == normalize_account_id(account_id)
        rows == {i \in 1..Len(t.history) : t.history[i].account_id = resolved}
    IN  {i \in rows : \A j \in rows : j <= i}

\* The rows get_latest_account_history can return: those first in
\* "ORDER BY finished_at DESC" among the rows of the account (rows with the
\* same finished_at come in an order the query does not fix).
latest_rows(t, account_id) ==
    LET resolved == normalize_account_id(account_id)
        rows == {i \in 1..Len(t.history) : t.history[i].account_id = resolved}
    IN  {i \in rows : \A j \in rows : t.history[j].finished_at <= t.history[i].finished_at}

RecordSyncEvent ==
    /\ db.steps >= 0 /\ Len(db.history) < MaxEvents
    /\ \E a \in AccountArgs, f \in RemoteIds, st \in {"success", "error"},
          w \in WallClock, z \in Zones :
          db' = [record_sync_event(db, a, f, st, w, z) EXCEPT
                    !.steps = @ + 1, !.last = Call("record_sync_event", a, f, "")]
    /\ UNCHANGED <<engineVars, probe, trial, batch, auth, include_subfolders, scan, ui, xfer, feed>>

\* ConfigStore.get_latest_account_history; the result is kept in db.last.
GetLatestAccountHistory ==
    /\ db.steps >= 0 /\ db.last.op # "get_latest_account_history"
    /\ \E a \in AccountArgs :
          \/ /\ latest_rows(db, a) = {}
             /\ db' = [db EXCEPT !.last = [op |-> "get_latest_account_history",
                                           account_id |-> a, result |-> NoRecord]]
          \/ \E i \in latest_rows(db, a) :
                db' = [db EXCEPT !.last = [op |-> "get_latest_account_history",
                                           account_id |-> a, result |-> db.history[i]]]
    /\ UNCHANGED <<engineVars, probe, trial, batch, auth, include_subfolders, scan, ui, xfer, feed>>

InitHistory == StartStore
NextHistory == RecordSyncEvent \/ GetLatestAccountHistory
SpecHistory == InitHistory /\ [][NextHistory]_vars

(* ------------------------- folder state updates ------------------------ *)
MaxUpdates == 2
\* Arguments of the update calls; NoCursor and "none" stand for None.
CursorArgs == {NoCursor, 7}
StatusArgs == {"none", "error"}
ErrorArgs == {"none", "boom"}
DirectionArgs == {"none", "push"}
PolicyArgs == {"none", "local_wins"}

\* An update that creates the missing folder record instead of raising.
update_folder_state_upsert(t, account_id, remote_id, delta, st, err) ==
    LET resolved == normalize_account_id(account_id)
        folder == FolderRows(t, resolved, remote_id)
        e == IF folder = {} THEN FolderRow(resolved, remote_id) ELSE CHOOSE r \in folder : TRUE
    IN  [raised |-> FALSE,
         t |-> [t EXCEPT !.folders =
                   (@ \ {e}) \cup {[e EXCEPT !.delta_link = UpdField(@, delta, NoCursor),
                                             !.last_status = UpdField(@, st, "none"),
                                             !.last_error = UpdField(@, err, "none")]}]]

\* ConfigStore.update_folder_state: ValueError when the folder is unknown,
\* otherwise every argument that is not None is written to the row.
update_folder_state(t, account_id, remote_id, delta, st, err) ==
    LET resolved == normalize_account_id(account_id)
        folder == FolderRows(t, resolved, remote_id)
    IN  IF folder = {}
        THEN [raised |-> TRUE, t |-> t]
        ELSE LET e == CHOOSE r \in folder : TRUE
             IN  [raised |-> FALSE,
                  t |-> [t EXCEPT !.folders =
                            (@ \ {e}) \cup {[e EXCEPT !.delta_link = UpdField(@, delta, NoCursor),
                                                      !.last_status = UpdField(@, st, "none"),
                                                      !.last_error = UpdField(@, err, "none")]}]]

\* ConfigStore.update_folder_preferences
update_folder_preferences(t, account_id, remote_id, dir, pol) ==
    LET resolved == normalize_account_id(account_id)
        folder == FolderRows(t, resolved, remote_id)
    IN  IF folder = {}
        THEN [raised |-> TRUE, t |-> t]
        ELSE LET e == CHOOSE r \in folder : TRUE
             IN  [raised |-> FALSE,
                  t |-> [t EXCEPT !.folders =
                            (@ \ {e}) \cup {[e EXCEPT !.sync_direction = UpdField(@, dir, "none"),
                                                      !.conflict_policy = UpdField(@, pol, "none")]}]]

\* The stores the update calls are made on: any set of folder records with
\* one record per (account, remote id) at most, some FileStates (of known and
\* of unknown folders) and some history.
SomeItems ==
    {[account_id |-> "acct", folder_remote_id |-> "f1", relative_path |-> "x",
      item_id |-> "i1", etag |-> 1],
     [account_id |-> DEFAULT_ACCOUNT_ID, folder_remote_id |-> "f2", relative_path |-> "y",
      item_id |-> "i2", etag |-> 2]}
SomeHistory ==
    {<<>>, <<[account_id |-> "acct", folder_remote_id |-> "f1", finished_at |-> 1,
              status |-> "success"]>>}
InitFolders ==
    /\ Start(0)
    /\ probe = NoProbe /\ trial = NoTrial /\ batch = NoBatch /\ auth = NoAuth /\ ui = NoUi /\ xfer = NoXfer /\ feed = NoFeed
    /\ include_subfolders = DefaultSubfolders /\ scan = NoScan
    /\ direction = "pull" /\ conflict_policy = "remote_wins" /\ parent_widget = FALSE
    /\ \E keys \in SUBSET ({DEFAULT_ACCOUNT_ID, "acct"} \X RemoteIds),
          items \in SUBSET SomeItems, hist \in SomeHistory :
          db = [EmptyDb EXCEPT !.folders = {FolderRow(k[1], k[2]) : k \in keys},
                               !.items = items, !.history = hist]

UpdateFolderState ==
    /\ db.steps \in 0..(MaxUpdates - 1)
    /\ \E a \in AccountArgs, f \in RemoteIds, delta \in CursorArgs, st \in StatusArgs,
          err \in ErrorArgs :
          LET r == update_folder_state(db, a, f, delta, st, err)
          IN  db' = [r.t EXCEPT !.steps = @ + 1,
                                !.last = [op |-> "update_folder_state", account_id |-> a,
                                          remote_id |-> f, raised |-> r.raised]]
    /\ UNCHANGED <<engineVars, probe, trial, batch, auth, include_subfolders, scan, ui, xfer, feed>>

UpdateFolderPreferences ==
    /\ db.steps \in 0..(MaxUpdates - 1)
    /\ \E a \in AccountArgs, f \in RemoteIds, dir \in DirectionArgs, pol \in PolicyArgs :
          LET r == update_folder_preferences(db, a, f, dir, pol)
          IN  db' = [r.t EXCEPT !.steps = @ + 1,
                                !.last = [op |-> "update_folder_preferences", account_id |-> a,
                                          remote_id |-> f, raised |-> r.raised]]
    /\ UNCHANGED <<engineVars, probe, trial, batch, auth, include_subfolders, scan, ui, xfer, feed>>

NextFolders == UpdateFolderState \/ UpdateFolderPreferences
SpecFolders == InitFolders /\ [][NextFolders]_vars

(* ----------------------------- preferences ----------------------------- *)
\* Table Preference: the column `key` alone is the primary key.  A key is a
\* free string; the second one happens to start with an account id and a
\* colon.
PrefKeys == {"k", "acct:k"}
PrefValues == {"10", "15"}
NoValue == "none"
\* The account argument of a preference call: "" is None or the empty string
\* (both falsy: the global scope).
PrefScopes == AccountArgs \X PrefKeys

\* pref_key = f"{normalized}:{key}" if normalized else key
pref_key(key, account_id) ==
    LET normalized == IF account_id # "" THEN normalize_account_id(account_id) ELSE ""
    IN  IF normalized # "" THEN normalized \o ":" \o key ELSE key

set_preference(t, key, value, account_id) ==
    LET k == pref_key(key, account_id)
        rows == {r \in t : r.key = k}
    IN  IF rows # {}
        THEN {r \in t : r.key # k} \cup {[r EXCEPT !.value = value] : r \in rows}
        ELSE t \cup {[key |-> k, value |-> value, account_id |-> account_id]}

get_preference(t, key, account_id) ==
    LET rows == {r \in t : r.key = pref_key(key, account_id)}
    IN  IF rows = {} THEN NoValue ELSE (CHOOSE r \in rows : TRUE).value

\* db.expect remembers, per scope and key, the value of the last
\* set_preference made with exactly that scope and key.
InitPrefs ==
    /\ Start(0)
    /\ probe = NoProbe /\ trial = NoTrial /\ batch = NoBatch /\ auth = NoAuth /\ include_subfolders = DefaultSubfolders /\ scan = NoScan /\ ui = NoUi /\ xfer = NoXfer /\ feed = NoFeed
    /\ direction = "pull" /\ conflict_policy = "remote_wins" /\ parent_widget = FALSE
    /\ db = [EmptyDb EXCEPT !.expect = [s \in PrefScopes |-> NoValue]]

SetPreference ==
    /\ db.steps \in 0..(MaxCalls - 1)
    /\ \E a \in AccountArgs, k \in PrefKeys, v \in PrefValues :
          db' = [db EXCEPT !.steps = @ + 1,
                           !.preferences = set_preference(@, k, v, a),
                           !.expect = [@ EXCEPT ![<<a, k>>] = v],
                           !.last = [op |-> "set_preference", account_id |-> a,
                                     key |-> k, result |-> v]]
    /\ UNCHANGED <<engineVars, probe, trial, batch, auth, include_subfolders, scan, ui, xfer, feed>>

GetPreference ==
    /\ db.steps >= 0 /\ db.last.op # "get_preference"
    /\ \E a \in AccountArgs, k \in PrefKeys :
          db' = [db EXCEPT !.last = [op |-> "get_preference", account_id |-> a,
                                     key |-> k,
                                     result |-> get_preference(db.preferences, k, a)]]
    /\ UNCHANGED <<engineVars, probe, trial, batch, auth, include_subfolders, scan, ui, xfer, feed>>

NextPrefs == SetPreference \/ GetPreference
SpecPrefs == InitPrefs /\ [][NextPrefs]_vars

(* --------------------------- MSAL token cache -------------------------- *)
MaxCached == 2
MaxAuthCalls == 3
\* home_account_id of an account; "" as an argument is None.
HomeIds == {"home.1", "home.2", "home.3"}
AccountIdArgs == {""} \cup HomeIds
\* app.get_accounts(): the cached accounts, in the order MSAL lists them.
Caches ==
    {c \in UNION {[1..n -> HomeIds] : n \in 0..MaxCached} :
        \A i, j \in 1..Len(c) : i # j => c[i] # c[j]}
NoCall == [op |-> "none", account_id |-> "", cached |-> <<>>, requested |-> "none",
           result |-> "none"]

RECURSIVE Matches(_, _)
Matches(accounts, account_id) ==
    IF accounts = <<>> THEN <<>>
    ELSE (IF Head(accounts) = account_id THEN <<Head(accounts)>> ELSE <<>>)
             \o Matches(Tail(accounts), account_id)

\* MSALClient._resolve_accounts
resolve_accounts(accounts, account_id) ==
    IF account_id # "" /\ Matches(accounts, account_id) # <<>>
    THEN Matches(accounts, account_id)
    ELSE accounts

\* The token cache as _load_cache found it.
InitAuth ==
    /\ Start(0)
    /\ probe = NoProbe /\ trial = NoTrial /\ batch = NoBatch /\ db = NoDb /\ include_subfolders = DefaultSubfolders /\ scan = NoScan /\ ui = NoUi /\ xfer = NoXfer /\ feed = NoFeed
    /\ direction = "pull" /\ conflict_policy = "remote_wins" /\ parent_widget = FALSE
    /\ \E c \in Caches : auth = [calls |-> 0, cache |-> c, last |-> NoCall]

\* MSALClient.acquire_token_silent; MSAL answers with a token or with None.
AcquireTokenSilent ==
    /\ auth.calls \in 0..(MaxAuthCalls - 1)
    /\ \E account_id \in AccountIdArgs, answer \in {"token", "none"} :
          LET accounts == resolve_accounts(auth.cache, account_id)
          IN  auth' = [auth EXCEPT
                  !.calls = @ + 1,
                  !.last = IF accounts = <<>>
                           THEN [op |-> "acquire_token_silent", account_id |-> account_id,
                                 cached |-> auth.cache, requested |-> "none",
                                 result |-> "none"]
                           ELSE [op |-> "acquire_token_silent", account_id |-> account_id,
                                 cached |-> auth.cache, requested |-> accounts[1],
                                 result |-> answer]]
    /\ UNCHANGED <<engineVars, probe, trial, batch, db, include_subfolders, scan, ui, xfer, feed>>

\* MSALClient.acquire_token_interactive / poll_device_flow: a sign-in leaves
\* the account in the cache.
SignIn ==
    /\ auth.calls \in 0..(MaxAuthCalls - 1)
    /\ Len(auth.cache) < MaxCached
    /\ \E h \in HomeIds :
          /\ Matches(auth.cache, h) = <<>>
          /\ auth' = [auth EXCEPT !.calls = @ + 1, !.cache = Append(@, h),
                                  !.last = [NoCall EXCEPT !.op = "sign_in",
                                                          !.account_id = h]]
    /\ UNCHANGED <<engineVars, probe, trial, batch, db, include_subfolders, scan, ui, xfer, feed>>

\* MSALClient.remove_account
RemoveAccount ==
    /\ auth.calls \in 0..(MaxAuthCalls - 1)
    /\ \E h \in HomeIds :
          auth' = [auth EXCEPT !.calls = @ + 1,
                               !.cache = SelectSeq(@, LAMBDA a : a # h),
                               !.last = [NoCall EXCEPT !.op = "remove_account",
                                                       !.account_id = h]]
    /\ UNCHANGED <<engineVars, probe, trial, batch, db, include_subfolders, scan, ui, xfer, feed>>

NextAuth == AcquireTokenSilent \/ SignIn \/ RemoveAccount
SpecAuth == InitAuth /\ [][NextAuth]_vars

(* ----------------------------- local scanner --------------------------- *)
\* Modification times in milliseconds since the epoch; 0 is the epoch itself
\* (st_mtime = 0.0).
MaxMtime == 3
\* The tolerance of the time comparison, 1e-3 s.
Epsilon == 1
MTimes == 0..MaxMtime
\* local_mtime = None in a FileState.
NoneTime == -1
ScanFiles == {"x", "y"}
Contents == {1, 2}
LocalNodes ==
    {NoNode, DirNode}
        \cup {[kind |-> "file", data |-> d, mtime |-> m] : d \in Contents, m \in MTimes}
Hashes == {hash_file([kind |-> "file", data |-> d, mtime |-> 0]) : d \in Contents}
NoKnown == [recorded |-> FALSE, local_mtime |-> NoneTime, content_hash |-> NoHash]
KnownStates ==
    {NoKnown}
        \cup {[recorded |-> TRUE, local_mtime |-> m, content_hash |-> h] :
                 m \in MTimes \cup {NoneTime}, h \in Hashes \cup {NoHash}}
\* What can happen to a file between its enumeration and its reading.
ReadFaults == {"none", "gone_before_stat", "gone_before_open", "unreadable"}
NoEntry == [present |-> FALSE, has_state |-> FALSE, content_hash |-> NoHash]

Abs(n) == IF n < 0 THEN -n ELSE n
\* Python truth value of Optional[float]: None and 0.0 are false.
Truthy(t) == t # NoneTime /\ t # 0

\* LocalWalker.hash_file as _detect_local_changes calls it: None when the
\* file is gone by the time it is opened.
current_hash(node, fault) == IF fault = "gone_before_open" THEN NoHash ELSE hash_file(node)

\* The condition of _detect_local_changes, lines 185-189.
is_changed(state, mtime, hash) ==
    \/ ~state.recorded
    \/ (Truthy(state.local_mtime) /\ Abs(state.local_mtime - mtime) > Epsilon)
    \/ state.content_hash # hash

\* The exception that ends the scan, "none" if it runs to its end: stat of a
\* vanished file raises FileNotFoundError, open of an unreadable file raises
\* PermissionError, which hash_file does not catch.
scan_error(files, fault) ==
    IF \E p \in ScanFiles : files[p].kind = "file" /\ fault[p] = "gone_before_stat"
    THEN "FileNotFoundError"
    ELSE IF \E p \in ScanFiles : files[p].kind = "file" /\ fault[p] = "unreadable"
    THEN "PermissionError"
    ELSE "none"

\* SyncEngine._detect_local_changes: the returned dictionary.
scan_changes(files, known, fault) ==
    [p \in ScanFiles |->
        IF files[p].kind = "file"
        THEN IF is_changed(known[p], files[p].mtime, current_hash(files[p], fault[p]))
             THEN [present |-> TRUE, has_state |-> known[p].recorded,
                   content_hash |-> current_hash(files[p], fault[p])]
             ELSE NoEntry
        ELSE IF known[p].recorded
             THEN [present |-> TRUE, has_state |-> TRUE, content_hash |-> NoHash]
             ELSE NoEntry]

\* sync_folder is entered with some local tree and some FileState table.
InitScan ==
    /\ Start(0)
    /\ probe = NoProbe /\ trial = NoTrial /\ batch = NoBatch /\ db = NoDb /\ auth = NoAuth /\ ui = NoUi /\ xfer = NoXfer /\ feed = NoFeed
    /\ include_subfolders = DefaultSubfolders
    /\ direction = "pull" /\ conflict_policy = "remote_wins" /\ parent_widget = FALSE
    /\ \E f \in [ScanFiles -> LocalNodes], k \in [ScanFiles -> KnownStates] :
          scan = [at |-> "scan", files |-> f, known |-> k,
                  files0 |-> f, known0 |-> k,
                  fault |-> [p \in ScanFiles |-> "none"],
                  changes |-> [p \in ScanFiles |-> NoEntry], error |-> "none"]

\* sync_folder, line 116: the local scan.
DetectLocalChanges ==
    /\ scan.at = "scan"
    /\ \E fault \in [ScanFiles -> ReadFaults] :
          /\ \A p \in ScanFiles : scan.files[p].kind # "file" => fault[p] = "none"
          /\ scan' = [scan EXCEPT
                 !.fault = fault,
                 !.files = [p \in ScanFiles |->
                               IF fault[p] \in {"gone_before_stat", "gone_before_open"}
                               THEN NoNode ELSE @[p]],
                 !.error = scan_error(scan.files, fault),
                 !.changes = IF scan_error(scan.files, fault) = "none"
                             THEN scan_changes(scan.files, scan.known, fault)
                             ELSE @,
                 !.at = IF scan_error(scan.files, fault) = "none"
                        THEN "collect" ELSE "raised"]
    /\ UNCHANGED <<engineVars, probe, trial, batch, db, auth, include_subfolders, ui, xfer, feed>>

\* sync_folder, lines 118-121: the remote collection begins.
CollectRemote ==
    /\ scan.at = "collect"
    /\ scan' = [scan EXCEPT !.at = "collecting"]
    /\ UNCHANGED <<engineVars, probe, trial, batch, db, auth, include_subfolders, ui, xfer, feed>>

NextScan == DetectLocalChanges \/ CollectRemote
SpecScan == InitScan /\ [][NextScan]_vars

(* ------------------------- sync requests of the UI --------------------- *)
\* main(): window.sync_requested is connected to trigger_sync, which creates
\* one task per request on the event loop; a task runs until its next await.
MaxRequests == 3
MaxSwitches == 2
UiFolders == {"f1", "f2"}
\* The accounts of the store; each has the folders of UiFolders configured.
UiAccounts == {"A", "B"}
\* Where a task is: created, awaiting the remote collection (the local scan
\* is done), awaiting a transfer of the reconciliation, awaiting the notifier
\* (status and history are written), finished.
TaskAt == <<"scheduled", "collect", "reconcile", "notify", "done">>
InProgress(task) == task.at \in {"collect", "reconcile", "notify"}

\* SyncEngine._ensure_client: the client is built once, around the token
\* provider the engine has at that moment, and kept.
ensure_client(client, token_provider) ==
    IF client = "none" THEN token_provider ELSE client

\* run(), lines 166-182: the first account is active; the engine gets its
\* token provider and has no client yet.
InitUi ==
    /\ Start(0)
    /\ probe = NoProbe /\ trial = NoTrial /\ batch = NoBatch /\ db = NoDb /\ auth = NoAuth /\ xfer = NoXfer /\ feed = NoFeed
    /\ include_subfolders = DefaultSubfolders /\ scan = NoScan
    /\ direction = "pull" /\ conflict_policy = "remote_wins" /\ parent_widget = FALSE
    /\ ui = [tasks |-> <<>>, on |-> TRUE, active_account |-> "A",
             token_provider |-> "A", client |-> "none", switches |-> 0]

\* MainWindow._request_sync / trigger_sync: the button stays enabled while a
\* sync runs, and every click creates a task.
TriggerSync ==
    /\ ui.on /\ Len(ui.tasks) < MaxRequests
    /\ \E f \in UiFolders :
          ui' = [ui EXCEPT !.tasks = Append(@, [folder |-> f, at |-> "scheduled",
                                                account |-> "none", token |-> "none"])]
    /\ UNCHANGED <<engineVars, probe, trial, batch, db, auth, include_subfolders, scan, xfer, feed>>

\* handle_account_switch / update_engine_account: the window's active
\* account and the engine's _account_id and _token_provider are replaced; the
\* engine's _client is not touched.
SwitchAccount ==
    /\ ui.on /\ ui.switches < MaxSwitches
    /\ \E a \in UiAccounts \ {ui.active_account} :
          ui' = [ui EXCEPT !.active_account = a, !.token_provider = a, !.switches = @ + 1]
    /\ UNCHANGED <<engineVars, probe, trial, batch, db, auth, include_subfolders, scan, xfer, feed>>

\* The event loop resumes one task, which runs run_sync / sync_folder up to
\* its next await.  Its first stretch looks the folder up under the active
\* account and takes the engine's client, whose token provider authorises
\* every remote call of the run.
RunTask ==
    /\ ui.on
    /\ \E i \in 1..Len(ui.tasks), k \in 1..4 :
          /\ ui.tasks[i].at = TaskAt[k]
          /\ ui' = IF k = 1
                   THEN LET c == ensure_client(ui.client, ui.token_provider)
                        IN  [ui EXCEPT !.tasks[i] = [folder |-> @.folder, at |-> TaskAt[2],
                                                     account |-> ui.active_account,
                                                     token |-> c],
                                       !.client = c]
                   ELSE [ui EXCEPT !.tasks[i].at = TaskAt[k + 1]]
    /\ UNCHANGED <<engineVars, probe, trial, batch, db, auth, include_subfolders, scan, xfer, feed>>

NextUi == TriggerSync \/ SwitchAccount \/ RunTask
SpecUi == InitUi /\ [][NextUi]_vars

(* ----------------- one transfer beside an external writer --------------- *)
\* _upload_item and _download_item / _record_file_state for one file, statement
\* by statement, while another process writes to the same file.
MaxWrites == 2
XferBytes == 1..3
XferKinds == {"upload", "download"}
XferOthers == <<probe, trial, batch, db, auth, include_subfolders, scan, ui>>

InitTransfer ==
    /\ Start(0)
    /\ probe = NoProbe /\ trial = NoTrial /\ batch = NoBatch /\ db = NoDb /\ auth = NoAuth /\ ui = NoUi /\ feed = NoFeed
    /\ include_subfolders = DefaultSubfolders /\ scan = NoScan
    /\ direction = "pull" /\ conflict_policy = "remote_wins" /\ parent_widget = FALSE
    /\ \E kind \in XferKinds, d \in XferBytes, r \in XferBytes :
          xfer = [at |-> "begin", kind |-> kind,
                  file |-> [kind |-> "file", data |-> d, mtime |-> 1],
                  content |-> r, sent |-> 0, hash |-> NoHash, mtime |-> NoMtime,
                  state |-> NoState, writes |-> 0, changed |-> FALSE]

\* Another process rewrites the file, at any point before the next scan.
ExternalWrite ==
    /\ xfer.at \in {"begin", "hash", "stat", "upsert", "recorded"}
    /\ xfer.writes < MaxWrites
    /\ \E d \in XferBytes \ {xfer.file.data} :
          xfer' = [xfer EXCEPT !.file = [kind |-> "file", data |-> d, mtime |-> @.mtime + 1],
                               !.writes = @ + 1]
    /\ UNCHANGED <<engineVars, XferOthers, feed>>

\* client.upload_item reads the file and puts its bytes (upload), or
\* client.download returns the bytes and the temporary file replaces the
\* destination (download).
Transfer ==
    /\ xfer.at = "begin"
    /\ xfer' = IF xfer.kind = "upload"
               THEN [xfer EXCEPT !.sent = xfer.file.data, !.at = "hash"]
               ELSE [xfer EXCEPT !.sent = xfer.content,
                                 !.file = [kind |-> "file", data |-> xfer.content,
                                           mtime |-> @.mtime + 1],
                                 !.at = "stat"]
    /\ UNCHANGED <<engineVars, XferOthers, feed>>

\* LocalWalker.hash_file of the file as it is now: before the stat in
\* _upload_item, after it in _record_file_state.
HashFile ==
    /\ xfer.at = "hash"
    /\ xfer' = [xfer EXCEPT !.hash = hash_file(xfer.file),
                            !.at = IF xfer.kind = "upload" THEN "stat" ELSE "upsert"]
    /\ UNCHANGED <<engineVars, XferOthers, feed>>

\* path.stat().st_mtime of the file as it is now.
StatFile ==
    /\ xfer.at = "stat"
    /\ xfer' = [xfer EXCEPT !.mtime = xfer.file.mtime,
                            !.at = IF xfer.kind = "upload" THEN "upsert" ELSE "hash"]
    /\ UNCHANGED <<engineVars, XferOthers, feed>>

\* store.upsert_file_state with the hash and the time just read.
UpsertState ==
    /\ xfer.at = "upsert"
    /\ xfer' = [xfer EXCEPT !.state = [item_id |-> "x", etag |-> 1,
                                       mtime |-> xfer.mtime, hash |-> xfer.hash],
                            !.at = "recorded"]
    /\ UNCHANGED <<engineVars, XferOthers, feed>>

\* The scan of the next run compares the file with its FileState.
ScanAgain ==
    /\ xfer.at = "recorded"
    /\ xfer' = [xfer EXCEPT !.changed = FileChanged(xfer.file, xfer.state), !.at = "scanned"]
    /\ UNCHANGED <<engineVars, XferOthers, feed>>

NextTransfer ==
    ExternalWrite \/ Transfer \/ HashFile \/ StatFile \/ UpsertState \/ ScanAgain
SpecTransfer == InitTransfer /\ [][NextTransfer]_vars

(* ------------------------------- claims -------------------------------- *)
Transfers == {"download", "upload", "rdelete", "ldelete"}
RunOps(kinds) == {i \in 1..Len(ops) : ops[i].op \in kinds}
OpsAt(p, kinds) == {i \in 1..Len(ops) : ops[i].path = p /\ ops[i].op \in kinds}
InRun == pc # "idle"
\* The run has just returned normally and nothing has changed since.
JustSynced == pc = "idle" /\ quiet
SecondQuietRun == pc = "finish" /\ status = "success" /\ quiet
RemoteWinsCfg == conflict_policy = "remote_wins" \/ direction = "pull"
LocalWinsCfg == conflict_policy = "local_wins" \/ direction = "push"
\* The local changes the scan of this run found.
Scanned(p) == detect_local_changes(fs0, states0)[p].changed
\* The relative paths of the remote changes collected in this run.
RemoteKeys == {destination_path(collected[i]) : i \in 1..Len(collected)}

\* C1: a successful run that follows a successful run with no change in
\* between transfers nothing, deletes nothing and leaves the FileStates as
\* the first run left them.
C1_Idempotent ==
    SecondQuietRun => (RunOps(Transfers) = {} /\ states = prevStates)

\* The operation chosen for a conflict under remote_wins or in a pull folder.
C2_Decision ==
    \A i \in 1..Len(ops) :
        (ops[i].phase = "conflict" /\ RemoteWinsCfg) =>
            /\ ops[i].op = (IF ops[i].deleted THEN "ldelete"
                            ELSE IF ops[i].folder THEN "mkdir" ELSE "download")
            /\ OpsAt(ops[i].path, {"upload", "rdelete"}) = {}
\* What a step that applies such an operation leaves behind.
C2_Effect ==
    /\ (/\ RemoteWinsCfg /\ pc = "rloop" /\ pc' = "rloop"
        /\ Len(ops') = Len(ops) + 1 /\ ops'[Len(ops')].phase = "conflict") =>
            LET e == ops'[Len(ops')]
            IN  /\ (e.op = "ldelete" => (~Exists(fs', e.path) /\ states'[e.path] = NoState))
                /\ (e.op = "mkdir" => fs'[e.path].kind = "dir")
                /\ remote' = remote
    /\ (RemoteWinsCfg /\ pc = "dl_replace" /\ dl.phase = "conflict" /\ pc' = "rloop") =>
            /\ fs'[dl.dest].kind = "file"
            /\ fs'[dl.dest].data = remote[dl.src].data
            /\ states'[dl.dest] = [item_id |-> ItemId(dl.src), etag |-> remote[dl.src].etag,
                                   mtime |-> fs'[dl.dest].mtime,
                                   hash |-> hash_file(fs'[dl.dest])]
C3_LocalWins ==
    \A i \in 1..Len(ops) :
        (ops[i].phase = "conflict" /\ LocalWinsCfg) =>
            /\ ops[i].op = (IF ops[i].lexists THEN "upload" ELSE "rdelete")
            /\ \A j \in OpsAt(ops[i].path, {"download", "ldelete"}) : ops[j].phase = "listing"

\* C4: in a push folder a remote change on a path without local change is
\* never downloaded, never deletes the local path and never changes the
\* FileState of the path.
C4_PushIgnoresRemote ==
    (InRun /\ direction = "push") =>
        \A p \in Paths :
            ~Scanned(p) =>
                /\ OpsAt(p, {"download", "ldelete"}) = {}
                /\ states[p] = states0[p]

\* C5: in a pull folder a path that has a local change and no remote
\* change gets no upload and no remote deletion, and keeps its FileState.
C5_PullSkipsLocal ==
    (InRun /\ direction = "pull") =>
        \A p \in Paths :
            (Scanned(p) /\ p \notin RemoteKeys) =>
                /\ OpsAt(p, {"upload", "rdelete"}) = {}
                /\ states[p] = states0[p]

\* C6: after a successful first run (no stored cursor) of a pull or
\* bidirectional folder every remote file is present locally with the
\* remote bytes and the stored cursor is set.
C6_FirstRun ==
    (JustSynced /\ cursor0 = NoCursor /\ direction \in {"pull", "bidirectional"}) =>
        /\ \A p \in Paths :
              remote[p].kind = "file" => (fs[p].kind = "file" /\ fs[p].data = remote[p].data)
        /\ delta_link # NoCursor

\* C7: after a successful delta run of a pull or bidirectional folder a
\* previously synced, locally unchanged file that the feed marks as deleted
\* is gone locally and has no FileState.
C7_RemoteDeletion ==
    (JustSynced /\ cursor0 # NoCursor /\ direction \in {"pull", "bidirectional"}) =>
        \A i \in 1..Len(collected) :
            LET p == collected[i].src
            IN  (/\ collected[i].deleted
                 /\ states0[p] # NoState /\ fs0[p].kind = "file" /\ ~Scanned(p)) =>
                    (~Exists(fs, p) /\ states[p] = NoState)

\* C8: in a push or bidirectional folder a local file without FileState
\* and without remote counterpart is uploaded exactly once in a successful
\* run, and its FileState then holds the id and etag the upload returned.
C8_UploadOnce ==
    (JustSynced /\ direction \in {"push", "bidirectional"}) =>
        \A p \in Paths :
            (/\ fs0[p].kind = "file" /\ states0[p] = NoState
             /\ remote0[p].kind = "none"
             /\ \A i \in 1..Len(collected) : collected[i].src # p) =>
                /\ Cardinality(OpsAt(p, {"upload"})) = 1
                /\ states[p].item_id = ItemId(p)
                /\ states[p].etag = remote[p].etag

\* One step, seen from the destination of the download in progress.
C9_Step ==
    /\ \A p \in Paths : fs'[p].kind = "file" => fs'[p].data # Partial
    /\ (pc \in {"dl_fetch", "dl_open", "dl_write"} => fs'[dl.dest] = fs[dl.dest])
    /\ (pc = "dl_replace" =>
            \/ fs'[dl.dest] = fs[dl.dest]
            \/ (fs'[dl.dest].kind = "file" /\ fs'[dl.dest].data = remote[dl.src].data))
\* C9: whatever step a download has reached, the destination holds no
\* file, its content from before the download, or the complete new
\* content; unfinished content exists under the temporary name only.
C9_DownloadAtomic == [][C9_Step]_vars
\* A download onto an existing file has opened its temporary sibling.
C9_Witness ==
    pc = "dl_write" /\ tmpf[dl.dest] = Partial /\ fs[dl.dest].kind = "file"

\* One step of the retry loop, and the end of a run it made fail.
C10_Step ==
    /\ (pc = "dl_fetch" =>
          /\ dl'.attempt = dl.attempt + 1 /\ dl'.attempt <= 3
          /\ (pc' = "dl_open" =>
                /\ dl'.content = remote[dl.src].data
                /\ status' = status /\ error_message' = error_message /\ outcome' = outcome)
          /\ (pc' = "dl_fetch" =>
                /\ dl'.attempt < 3 /\ dl'.last_error \in Transient
                /\ status' = status /\ outcome' = outcome)
          /\ (pc' \notin {"dl_open", "dl_fetch"} =>
                LET exc == IF dl.phase = "listing" THEN outcome' ELSE error_message'
                IN  /\ exc \in Transient \cup {"GraphApiError"}
                    /\ (exc \in Transient => (dl'.attempt = 3 /\ exc = dl'.last_error))
                    /\ (dl'.attempt = 3 /\ dl'.last_error # "none" /\ ~(exc \in Transient)
                            => remote[dl.src].kind # "file" \/ exc = "GraphApiError")
                    /\ IF dl.phase = "listing"
                       THEN pc' = "idle"
                       ELSE pc' = "finish" /\ status' = "error"))
    /\ (pc = "finish" /\ status = "error" =>
          (outcome' = error_message /\ last_status' = "error"))
\* C10: a download makes at most three attempts; an attempt that succeeds
\* after transient failures only hands its content on without any error; a
\* transient error reaches the caller only as the error of the third
\* attempt, and then the run of the folder fails with it.
C10_BoundedRetry == [][C10_Step]_vars
\* The third attempt of a download succeeded after two transient failures.
C10_Witness ==
    pc = "dl_open" /\ dl.attempt = 3 /\ dl.last_error \in Transient

\* The run is in its reconciliation stage (the try block of sync_folder).
Reconciling ==
    \/ pc \in {"reconcile", "rloop"}
    \/ (pc \in {"dl_fetch", "dl_open", "dl_write", "dl_replace"} /\ dl.phase # "listing")

\* One step of a run whose reconciliation raises.
C11_Step ==
    /\ (Reconciling => pc' # "idle")
    /\ (Reconciling /\ pc' = "finish" /\ status' = "error" =>
            /\ error_message' # "none"
            /\ ctx_delta' = ctx_delta /\ history' = history /\ notes' = notes)
    /\ (pc = "finish" /\ status = "error" =>
            /\ last_status' = "error"
            /\ last_error' = error_message
            /\ delta_link' = ctx_delta
            /\ history' = Append(history, [status |-> "error", error_message |-> error_message])
            /\ notes' = Append(notes, "critical")
            /\ pc' = "idle" /\ outcome' = error_message)
C12_OneRecordPerRun ==
    pc = "idle" => (Len(history) = runs /\ (runs > 0 => last_status # "none"))

\* The collected changes of this run that have not been applied: all of
\* them before the reconcile loop starts, then those whose key is still queued.
Unapplied ==
    {i \in 1..Len(collected) :
        \/ pc = "reconcile"
        \/ \E k \in 1..Len(rkeys) : rkeys[k] = destination_path(collected[i])}

\* C13: the stored cursor never lies past a collected remote change that
\* has not been applied, so a later delta request with the stored cursor
\* still delivers it.
C13_CursorBehindProgress ==
    \A i \in Unapplied : delta_link < rver[collected[i].src]

\* One request of the delta collector, against the response the remote gives.
C14_Step ==
    pc = "delta" =>
        \E full \in BOOLEAN :
            LET response == DeltaPage(link, full)
            IN  /\ collected' = collected \o response.value
                /\ (response.nextLink # NoCursor =>
                        pc' = "delta" /\ link' = response.nextLink /\ delta_link' = delta_link)
                /\ (pc' # "delta" =>
                        /\ response.deltaLink # NoCursor
                        /\ delta_link' = response.deltaLink
                        /\ ctx_delta' = response.deltaLink)
\* What a finished delta collection holds: every change after the cursor
\* the run started with, and the final cursor in the store.
C14_Complete ==
    (pc = "reconcile" /\ cursor0 # NoCursor) =>
        /\ {collected[i].src : i \in 1..Len(collected)} = {p \in Paths : rver[p] > cursor0}
        /\ delta_link = rseq
C15_RoundTrip == probe.step = "done" => probe.back = probe.path

\* C16 as stated: the action taken for a conflict is a function of
\* (direction, conflict policy, local file exists, remote deleted) alone, so
\* the two runs, which agree on these four, take the same action.
C16_TupleAlone == trial.step = 3 => trial.action[1] = trial.action[2]

\* The remote side is taken for an item that still exists.
TakesLiveRemote ==
    /\ ~trial.remote_deleted
    /\ conflict_policy = "remote_wins" \/ direction = "pull"
\* The user is asked: policy prompt in a bidirectional folder.
Asks == conflict_policy = "prompt" /\ direction = "bidirectional"
\* What _prompt_conflict returns in run n.
Choice(n) == prompt_conflict(trial.run[n].widget, trial.run[n].answer)

\* C16, amended: two runs with the same tuple take the same action, unless
\* the user is asked and the two answers differ, or the remote side is taken
\* for an existing item that is a folder in one run and a file in the other.
C16_Determinism ==
    (/\ trial.step = 3
     /\ Asks => Choice(1) = Choice(2)
     /\ TakesLiveRemote => trial.run[1].is_folder = trial.run[2].is_folder)
    => trial.action[1] = trial.action[2]
\* Under remote_wins in a bidirectional folder two runs with different
\* answers, widgets and the same kind of item took the same action.
C16_Witness ==
    /\ trial.step = 3
    /\ conflict_policy = "remote_wins" /\ direction = "bidirectional"
    /\ trial.run[1].widget /\ trial.run[2].widget
    /\ trial.run[1].answer # trial.run[2].answer
    /\ trial.run[1].is_folder = trial.run[2].is_folder
    /\ trial.action[1] = trial.action[2] /\ trial.action[1] # NoAction

\* What _resolve_conflict does for the conflict of run n under remote_wins.
UnderRemoteWins(n) ==
    LET c == trial.run[n]
        ch == [NoItem EXCEPT !.deleted = trial.remote_deleted, !.is_folder = c.is_folder]
    IN  resolve_conflict(direction, "remote_wins", ch, trial.local_exists, "remote")

\* C17: with policy prompt in a bidirectional folder and no parent widget,
\* every conflict gets exactly the action it gets under remote_wins, whether
\* the remote item is deleted, a folder or a file and whether the local file
\* exists; a remote deletion deletes the local path.
C17_PromptAsRemoteWins ==
    \A n \in 1..2 :
        (trial.step = 3 /\ Asks /\ ~trial.run[n].widget) =>
            trial.action[n] = UnderRemoteWins(n)

\* The positions in the log of the events of the given kinds.
LogAt(kinds, a, f) ==
    {k \in 1..Len(batch.log) :
        batch.log[k].kind \in kinds /\ batch.log[k].account = a /\ batch.log[k].folder = f}
Before(K, k) == \E i \in K : i < k

\* C18: sync_all takes the folders one after another: when the local scan or
\* a remote call of folder i+1 happens, the history record of folder i, and
\* its notification when there is a notifier, have been produced, and nothing
\* of folder i happens afterwards; without a configured folder sync_all
\* makes no remote call and no store write.
C18_Sequential ==
    batch.at # "off" =>
        /\ \A k \in 1..Len(batch.log) :
             LET e == batch.log[k] IN
             (e.kind \in {"scan", "remote"} /\ e.folder > 1) =>
                 /\ Before(LogAt({"record"}, e.account, e.folder - 1), k)
                 /\ batch.notifier => Before(LogAt({"notify"}, e.account, e.folder - 1), k)
                 /\ \A j \in 1..Len(batch.log) :
                        (batch.log[j].account = e.account /\ batch.log[j].folder = e.folder - 1)
                            => j < k
        /\ batch.folders = 0 =>
             \A k \in 1..Len(batch.log) :
                 batch.log[k].kind \notin {"scan", "remote", "write", "record", "notify"}
\* sync_all with a notifier went through two folders.
C18_Witness ==
    /\ batch.at = "done" /\ batch.driver = "direct" /\ batch.notifier
    /\ LogAt({"notify"}, 1, 1) # {} /\ LogAt({"record"}, 1, 2) # {}

\* The account's turn in the headless runner is over.
Over(a) == batch.account > a \/ batch.at \in {"accounts", "done", "crashed"}

EngineRemoved(p) ==
    \E i \in 1..Len(ops) : ops[i].op = "ldelete" /\ (ops[i].path = p \/ Under(p, ops[i].path))

\* C20: when sync_folder has completed successfully, a FileState exists for
\* a relative path only if a local file exists at that path; after a remote
\* folder deletion was applied locally no FileState is left for a path
\* under the deleted folder.
C20_FileStateInvariant ==
    (pc = "idle" /\ outcome = "returned" /\ quiet) =>
        \A p \in Paths :
            states[p] # NoState =>
                \/ fs[p].kind = "file" /\ ~EngineRemoved(p)
                \/ OpsAt(p, {"skip"}) # {}

\* The rows of a table that do not belong to the pair (account, remote id).
OtherFolders(t, account, remote_id) == t.folders \ FolderRows(t, account, remote_id)
OtherItems(t, account, remote_id) ==
    {r \in t.items : ~(r.account_id = account /\ r.folder_remote_id = remote_id)}
PairItems(t, account, remote_id) == t.items \ OtherItems(t, account, remote_id)
RemovedFolder == db'.last.op = "remove_folder"

\* C21 as stated: after remove_folder(account, remote_id) neither the folder
\* nor a FileState of that pair exists, the rows of every other pair are
\* unchanged, and removing a folder that does not exist changes nothing.
C21_Step ==
    RemovedFolder =>
        LET a == normalize_account_id(db'.last.account_id)
            f == db'.last.remote_id
        IN  /\ FolderRows(db', a, f) = {} /\ PairItems(db', a, f) = {}
            /\ OtherFolders(db', a, f) = OtherFolders(db, a, f)
            /\ OtherItems(db', a, f) = OtherItems(db, a, f)
            /\ FolderRows(db, a, f) = {} => (db'.folders = db.folders /\ db'.items = db.items)
C21_Cascade == [][C21_Step]_vars

\* C21, amended: after remove_folder(account, remote_id) of a folder that
\* exists neither the folder nor a FileState of that pair exists; the rows
\* of every other pair are unchanged; removing a folder that does not exist
\* changes nothing, FileStates recorded for that pair included.
C21_StepExisting ==
    RemovedFolder =>
        LET a == normalize_account_id(db'.last.account_id)
            f == db'.last.remote_id
        IN  /\ FolderRows(db, a, f) # {} => (FolderRows(db', a, f) = {} /\ PairItems(db', a, f) = {})
            /\ OtherFolders(db', a, f) = OtherFolders(db, a, f)
            /\ OtherItems(db', a, f) = OtherItems(db, a, f)
            /\ FolderRows(db, a, f) = {} => (db'.folders = db.folders /\ db'.items = db.items)
C21_CascadeExisting == [][C21_StepExisting]_vars
\* A folder with a FileState was removed while another account holds a
\* FileState under the same remote id.
C21_Witness ==
    /\ db.steps > 0 /\ db.last.op = "remove_folder"
    /\ LET a == normalize_account_id(db.last.account_id)
           f == db.last.remote_id
       IN  /\ \E r \in db.before : r.account_id = a /\ r.folder_remote_id = f
           /\ \E r \in db.items : r.account_id # a /\ r.folder_remote_id = f
           /\ PairItems(db, a, f) = {}

\* C24: there is at most one FileState per (account, folder, relative
\* path); get_file_state returns the fields of the last upsert of the key,
\* and None when the key was never upserted or was removed since, whatever
\* was done to other keys.
C24_RoundTrip ==
    db.steps >= 0 =>
        \A a \in AccountArgs, f \in RemoteIds, p \in RelPaths :
            /\ Cardinality(ItemRows(db, normalize_account_id(a), f, p)) <= 1
            /\ get_file_state(db, a, f, p) = db.expect[<<normalize_account_id(a), f, p>>]
\* A FileState was removed and the FileState of another key is still read.
C24_Witness ==
    /\ db.steps = MaxCalls /\ db.last.op = "remove_file_state"
    /\ \E a \in AccountArgs, f \in RemoteIds, p \in RelPaths :
          /\ get_file_state(db, a, f, p) # None
          /\ \E r \in db.before : r.account_id = normalize_account_id(a) /\ r.folder_remote_id = f
                                  /\ r.relative_path = p
          /\ db.before # db.items

\* The rows of the account in the history table.
AccountHistory(account) ==
    {i \in 1..Len(db.history) : db.history[i].account_id = account}

\* C22: get_latest_account_history(a) returns a record of account a whose
\* finished_at no record of a exceeds, None exactly when a has no record,
\* and never a record of another account; recording an event leaves the
\* records already there as they are.
C22_Result ==
    (db.steps >= 0 /\ db.last.op = "get_latest_account_history") =>
        LET a == normalize_account_id(db.last.account_id)
            r == db.last.result
        IN  IF AccountHistory(a) = {} THEN r = NoRecord
            ELSE /\ r.account_id = a
                 /\ \E i \in AccountHistory(a) : db.history[i] = r
                 /\ \A i \in AccountHistory(a) : db.history[i].finished_at <= r.finished_at
C22_AppendOnly ==
    (db.steps >= 0) =>
        /\ Len(db'.history) >= Len(db.history)
        /\ SubSeq(db'.history, 1, Len(db.history)) = db.history
C22_LatestPerAccount == [][C22_Result' /\ C22_AppendOnly]_vars
\* The latest record of an account was inserted before an earlier one, and
\* the other account holds a still later record.
C22_Witness ==
    /\ db.steps >= 0 /\ db.last.op = "get_latest_account_history"
    /\ Len(db.history) = MaxEvents
    /\ LET a == normalize_account_id(db.last.account_id)
       IN  /\ db.history[1] = db.last.result
           /\ db.history[2].account_id = a /\ db.history[2].finished_at < db.history[1].finished_at
           /\ db.history[3].account_id # a /\ db.history[3].finished_at > db.history[1].finished_at

\* C23: get_preference(key, account) returns the value of the last
\* set_preference with the same key and the same scope, None if there was
\* none; setting a preference in one scope never changes the value read for
\* any key in a different scope.
C23_LastSet ==
    db.steps >= 0 /\ db.last.op = "get_preference"
        => db.last.result = db.expect[<<db.last.account_id, db.last.key>>]
C23_OtherScopes ==
    db'.last.op = "set_preference"
        => \A s \in PrefScopes :
              s[1] # db'.last.account_id
                  => get_preference(db'.preferences, s[2], s[1])
                         = get_preference(db.preferences, s[2], s[1])
C23_Independent == [](C23_LastSet) /\ [][C23_OtherScopes]_vars

\* C25: after any sequence of sync runs on a folder, if the most recent run
\* succeeded (its final update_folder_state carried last_status = success and
\* last_error = None), the folder's last_status is success and its last_error
\* is empty, whatever it held before.
C25_StatusFollowsLast ==
    pc = "idle" /\ outcome = "returned"
        => last_status = "success" /\ last_error = "none"

\* C26: acquire_token_silent(account_id) with a given account id only ever
\* requests a token for a cached account whose home_account_id equals
\* account_id; when no cached account exists it returns None without
\* requesting a token.
C26_FilteredByAccount ==
    auth.calls >= 0 /\ auth.last.op = "acquire_token_silent"
        => /\ auth.last.account_id # "" /\ auth.last.requested # "none"
                  => auth.last.requested = auth.last.account_id
           /\ auth.last.cached = <<>>
                  => auth.last.requested = "none" /\ auth.last.result = "none"

\* C27: for a folder configured with include_subfolders = false, a sync run
\* does not traverse remote subfolders and transfers no item that lies in a
\* nested folder; only direct children of the synced folder are transferred.
C27_DirectChildrenOnly ==
    ~include_subfolders
        => \A i \in 1..Len(ops) : ops[i].op \in Transfers => Len(ops[i].path) = 1

\* C28: a deletion taken from the delta feed is applied to the last known
\* relative path of the marked item (the path under which its FileState is
\* kept) and to no other local path, also when the marker carries no parent
\* path: every local path a run deletes is the path of an item the feed
\* marked as deleted.
C28_LastKnownPath ==
    \A j \in 1..Len(ops) :
        ops[j].op = "ldelete" /\ ops[j].lexists
            => \E i \in 1..Len(collected) :
                  collected[i].deleted /\ collected[i].src = ops[j].path

\* The scan has returned or raised.
Scanned29 == scan.at \in {"collect", "collecting", "raised"}
StaticScan == \A p \in ScanFiles : scan.fault[p] = "none"
\* The entry the scanner is to return for path p: (a) an existing regular
\* file without prior state, or with a recorded time more than 1 ms from the
\* current one, or with another recorded hash, is returned with its fresh
\* hash; (b) a prior state without its file is returned with a null hash;
\* nothing else is returned.
ExpectedEntry(p) ==
    LET f == scan.files0[p]
        k == scan.known0[p]
    IN  IF f.kind = "file"
        THEN IF \/ ~k.recorded
                \/ (k.recorded /\ k.local_mtime # NoneTime
                        /\ Abs(k.local_mtime - f.mtime) > Epsilon)
                \/ k.content_hash # hash_file(f)
             THEN [present |-> TRUE, has_state |-> k.recorded, content_hash |-> hash_file(f)]
             ELSE NoEntry
        ELSE IF k.recorded
             THEN [present |-> TRUE, has_state |-> TRUE, content_hash |-> NoHash]
             ELSE NoEntry

\* C29: for every set of local files and every set of prior FileStates,
\* _detect_local_changes returns exactly the changed files (no prior state,
\* time off by more than 1 ms, or another hash) and one entry with a null
\* hash per prior FileState whose file no longer exists; matching files are
\* not returned, and the scan writes nothing to the store or the file system.
C29_ScannerResult ==
    Scanned29 /\ StaticScan
        => /\ scan.error = "none"
           /\ \A p \in ScanFiles : scan.changes[p] = ExpectedEntry(p)
           /\ scan.files = scan.files0 /\ scan.known = scan.known0

\* C30: if reading one local file fails during the scan (it vanishes between
\* enumeration and stat, or it cannot be opened for hashing), that entry is
\* skipped, the scan still returns the changes of all other files, and
\* sync_folder proceeds to remote collection.
C30_ReadErrorsNotFatal ==
    Scanned29 /\ ~StaticScan
        => /\ scan.error = "none" /\ scan.at \in {"collect", "collecting"}
           /\ \A p \in ScanFiles :
                 scan.changes[p] =
                     IF scan.fault[p] # "none" THEN NoEntry
                     ELSE scan_changes(scan.files0, scan.known0,
                                       [q \in ScanFiles |-> "none"])[p]

\* A file synced before (FileState present) that was gone when the run began.
LocallyDeleted(p) == states0[p] # NoState /\ ~Exists(fs0, p)
\* The feed of this run reports nothing about the item at path p.
NoRemoteChange(p) == \A i \in 1..Len(collected) : collected[i].src # p
\* The last operation of the run is the remote deletion of p and it failed.
DeleteFailed(p) ==
    /\ status = "error" /\ ops # <<>>
    /\ ops[Len(ops)].op = "rdelete" /\ ops[Len(ops)].path = p

C31_FailureReached ==
    /\ pc = "finish" /\ direction \in {"push", "bidirectional"}
    /\ \E p \in Paths :
          LocallyDeleted(p) /\ NoRemoteChange(p) /\ DeleteFailed(p) /\ states[p] # NoState

\* C32: within one sync_folder run each remote item is downloaded at most
\* once, on a first run (full listing followed by reconciliation) as well as
\* on a delta run.
C32_DownloadOnce ==
    \A p \in Paths : Cardinality(OpsAt(p, {"download"})) <= 1

\* The step is an update call for an (account, remote id) without folder
\* record.
UnknownFolderCall ==
    /\ db'.steps = db.steps + 1
    /\ db'.last.op \in {"update_folder_state", "update_folder_preferences"}
    /\ FolderRows(db, normalize_account_id(db'.last.account_id), db'.last.remote_id) = {}
C33_Step ==
    UnknownFolderCall
        => /\ db'.last.raised
           /\ db'.folders = db.folders /\ db'.items = db.items /\ db'.history = db.history
\* C33: update_folder_state and update_folder_preferences called for an
\* (account, remote_id) that has no folder record raise an error and leave
\* every folder record, FileState and history record unchanged.
C33_UnknownFolder == [][C33_Step]_vars
\* An update for an unknown folder has raised on a store that holds folder
\* records of other keys, a FileState and a history record.
C33_Witness ==
    /\ db.steps >= 1
    /\ db.last.op \in {"update_folder_state", "update_folder_preferences"}
    /\ db.last.raised
    /\ db.folders # {} /\ db.items # {} /\ db.history # <<>>

\* C34: for every sequence of sync requests from the UI, at no time are two
\* sync_folder invocations for the same folder in progress.
C34_SingleWriter ==
    \A i, j \in 1..Len(ui.tasks) :
        (/\ i # j /\ ui.tasks[i].folder = ui.tasks[j].folder
         /\ ui.tasks[i].account = ui.tasks[j].account)
            => ~(InProgress(ui.tasks[i]) /\ InProgress(ui.tasks[j]))
\* C35: in a bidirectional folder a local file that has no FileState and
\* whose own relative path has no remote change in this run is still there
\* at every point of the run, also when the run applies the remote deletion
\* of a folder that contains it.
C35_NeverSyncedKept ==
    (InRun /\ direction = "bidirectional") =>
        \A p \in Paths :
            (fs0[p].kind = "file" /\ states0[p] = NoState /\ NoRemoteChange(p)) =>
                fs[p].kind = "file"

\* The reconciler has just uploaded the file at p.
JustUploaded(p) ==
    /\ pc = "rloop" /\ ops # <<>>
    /\ ops[Len(ops)].op = "upload" /\ ops[Len(ops)].path = p
\* C36: under local_wins in a push or bidirectional folder a local file
\* that the scan of the run reports as changed keeps its bytes at every
\* point of the run, a first run with the same path on both sides included,
\* and what the run uploads for the path is what the file held when the run
\* began.
C36_LocalContentKept ==
    (/\ InRun /\ conflict_policy = "local_wins"
     /\ direction \in {"push", "bidirectional"}) =>
        \A p \in Paths :
            (fs0[p].kind = "file" /\ Scanned(p)) =>
                /\ fs[p].kind = "file" => fs[p].data = fs0[p].data
                /\ JustUploaded(p) => remote[remote_relative_path(p)].data = fs0[p].data

\* C37: whatever an external writer does to the file during the run, the
\* hash stored in the FileState after an upload or a download is the hash of
\* the bytes that were transferred, and the next scan reports the file as
\* changed when it no longer holds those bytes.
C37_HashOfTransferred ==
    /\ xfer.at \in {"recorded", "scanned"} =>
          xfer.state.hash = hash_file([kind |-> "file", data |-> xfer.sent, mtime |-> 0])
    /\ (xfer.at = "scanned" /\ xfer.file.data # xfer.sent) => xfer.changed

\* C38: when sync_folder raises for a folder of a batch, sync_all hands the
\* exception on after the status and the history record of that folder
\* have been written, and no later folder of the batch has been scanned,
\* collected or reconciled.
C38_StopsAtFirstFailure ==
    (batch.at = "after" /\ batch.exc # "none") =>
        \A k \in 1..Len(batch.log) :
            LET e == batch.log[k] IN
            (e.kind = "fail" /\ e.account = batch.account) =>
                /\ \E i \in LogAt({"write"}, e.account, e.folder),
                      j \in LogAt({"record"}, e.account, e.folder) : k < i /\ k < j
                /\ \A j \in 1..Len(batch.log) :
                       batch.log[j].account = e.account => batch.log[j].folder <= e.folder

\* C39: after the UI has switched the active account, every sync run that
\* starts later has its remote calls authorised by the token provider of the
\* account that is active when it starts, also when the engine had synced
\* for the previous account before.
C39_SwitchTakesEffect ==
    \A i \in 1..Len(ui.tasks) :
        ui.tasks[i].at # "scheduled" => ui.tasks[i].token = ui.tasks[i].account

\* C40: once the folder has a stored cursor, no step of a sync_folder run,
\* whether the run succeeds, fails in collection or fails in
\* reconciliation, and whatever the delta responses hold (a response with
\* neither continuation nor final cursor included), leaves the stored cursor
\* null.
C40_CursorKept == [][delta_link # NoCursor => delta_link' # NoCursor]_vars

\* A run that began with a stored cursor got a delta response without value
\* and links as its last response, went through reconciliation and ended;
\* the cursor is the one the run began with.
C40_Witness ==
    /\ pc = "idle" /\ runs > 0 /\ cursor0 # NoCursor
    /\ feed.last = "empty" /\ outcome = "returned"
    /\ delta_link = cursor0
\* Runs that began with a stored cursor and failed: in collection, on a
\* refused delta request, and in reconciliation.
C40_FailedInCollection ==
    /\ pc = "idle" /\ runs > 0 /\ cursor0 # NoCursor
    /\ feed.last = "GraphApiError" /\ outcome = "GraphApiError" /\ delta_link # NoCursor
C40_FailedInReconcile ==
    /\ pc = "idle" /\ runs > 0 /\ cursor0 # NoCursor
    /\ feed.faulty /\ feed.last # "GraphApiError" /\ last_status = "error"
    /\ outcome \notin {"returned", "running"} /\ delta_link # NoCursor

====
